---- MODULE Spec2Model ----
(***************************************************************************)
(* Retrieval, embedding and chat pipeline of the construction-documents    *)
(* assistant: the store (database.js), the embedding index                 *)
(* (embeddings.js), the chat handler (chatHandler.js), the answer          *)
(* generator (aiHandler.js) and the processing routes                      *)
(* (routes/documents.js).                                                  *)
(*                                                                         *)
(* Three specifications share the store:                                   *)
(*   SpecSearch  search / callout expansion / citation resolution, as pure *)
(*               functions of a store drawn from a bounded family          *)
(*   SpecEmbed   passes of generateEmbeddings driven by a processing route *)
(*   SpecChat    sendMessage requests, their awaits interleaved            *)
(***************************************************************************)
EXTENDS Integers, Sequences, FiniteSets, TLC

VARIABLES
    documents,        \* rows of table documents
    chunks,           \* rows of table chunks
    visual_findings,  \* rows of table visual_findings
    callouts,         \* rows of table callouts
    call,             \* SpecSearch: the last call made and what it returned
    gen_pc,           \* generateEmbeddings: where the pass stands
    gen_project,      \*   projectId
    gen_selected,     \*   ids of the rows selected at the start (const chunks)
    gen_i,            \*   loop variable i
    gen_j,            \*   loop variable j of the per-item fallback
    gen_processed,    \*   let processed
    gen_result,       \*   the value returned
    gen_error,        \*   the error thrown
    gen_log,          \*   provider calls and sleeps of the pass, in order
    gen_follows,      \*   what the pass follows (set at its start)
    gen_prev,         \*   how the previous pass ended
    gen_inserted,     \*   a chunk was inserted since the last selection
    route_outcome,    \* what the processing route reported for the last pass
    projects,         \* rows of table projects
    chats,            \* rows of table chats
    messages,         \* rows of table messages, in rowid order
    chat_openai,      \* chatHandler.js: let openai (TRUE once initOpenAI ran)
    req,              \* sendMessage: the state of each call
    faults            \* number of provider answers other than a plain success

storeVars == <<documents, chunks, visual_findings, callouts>>

genVars == <<gen_pc, gen_project, gen_selected, gen_i, gen_j, gen_processed,
             gen_result, gen_error, gen_log, gen_follows, gen_prev, gen_inserted,
             route_outcome>>

chatVars == <<projects, chats, messages, chat_openai, req, faults>>

---------------------------------------------------------------------------
(* Bounds of the model *)

MaxChunks == 4
MaxTopK == 3
MaxCitations == 2
\* SpecEmbed: chunks inserted after the start
MaxInserts == 1
\* SpecChat: provider answers other than a plain success, over all calls
MaxFaults == 1
MaxSpans == 3
MaxPages == 2
\* SpecSearch: largest maxAdditional a call of expandChunksWithCallouts names
MaxAdditional == 2
\* SpecFindings: rows of table visual_findings
MaxFindings == 24
\* SpecMerge: most chunks one search returns
MaxRun == 11

---------------------------------------------------------------------------
(* Values *)

NULL == "NULL"
\* SQL NULL of the embedding column (a JSON vector otherwise)
NoEmbedding == <<>>
\* a citation's page when it is null
NoPage == 0

Projects == {1, 2}

\* SpecSearch: no call in flight
NoCall ==
    [op |-> "none", projectId |-> 0, topK |-> 0, query |-> <<>>,
     citations |-> <<>>, ret |-> <<>>]

\* Embedding vectors the provider answers with (all of norm 5, so that the
\* cosine is exact in hundredths).
Vectors == << <<3, 4>>, <<4, 3>>, <<5, 0>>, <<0, 5>>, <<-3, -4>> >>

Sheets == <<"A-1", "A-2", "A-2", NULL, "A-3">>

Min(a, b) == IF a <= b THEN a ELSE b

Range(s) == {s[i] : i \in 1..Len(s)}

Cycle(s, k) == s[((k - 1) % Len(s)) + 1]

---------------------------------------------------------------------------
(* The store *)

\* Documents 1 and 2 belong to project 1, document 3 to project 2; documents
\* 1 and 3 carry the same file name.
DocumentRows ==
    { [id |-> 1, project_id |-> 1, filename |-> "A.pdf"],
      [id |-> 2, project_id |-> 1, filename |-> "B.pdf"],
      [id |-> 3, project_id |-> 2, filename |-> "A.pdf"] }

\* Chunk k lies on page k of document ((k-1) mod 3)+1.
ChunkRow(k, embedded) ==
    [id |-> k,
     document_id |-> ((k - 1) % 3) + 1,
     page_number |-> k,
     sheet_number |-> Cycle(Sheets, k),
     embedding |-> IF embedded THEN Cycle(Vectors, k) ELSE NoEmbedding]

FindingRow(k, embedded) ==
    [id |-> k,
     document_id |-> IF k % 2 = 1 THEN 1 ELSE 3,
     page_number |-> k,
     sheet_number |-> Cycle(Sheets, k),
     embedding |-> IF embedded THEN Cycle(Vectors, k + 1) ELSE NoEmbedding]

CalloutFamilies ==
    { {},
      { [document_id |-> 1, sheet_number |-> "A-1", target_sheet |-> "A-2"] },
      { [document_id |-> 1, sheet_number |-> "A-1", target_sheet |-> "A-2"],
        [document_id |-> 3, sheet_number |-> "A-2", target_sheet |-> "A-1"],
        [document_id |-> 2, sheet_number |-> "A-2", target_sheet |-> "A-3"] } }

\* Tables projects and chats. Chat 3 belongs to a project whose row has been
\* deleted (the schema's ON DELETE CASCADE is not enforced: the connection
\* never turns foreign keys on).
ProjectRows ==
    { [id |-> 1, name |-> "Tower"], [id |-> 2, name |-> "Annex"] }

ChatRows ==
    { [id |-> 1, project_id |-> 1, title |-> <<"New Chat">>],
      [id |-> 2, project_id |-> 2, title |-> <<"New Chat">>],
      [id |-> 3, project_id |-> 3, title |-> <<"New Chat">>] }

\* The calls of sendMessage a behaviour makes, in the order they start.
Requests == {1, 2}

NoReturn == [role |-> "none", content |-> <<>>, citations |-> <<>>]

\* A call that has not started.
IdleRequest ==
    [pc |-> "idle", chatId |-> 0, userMessage |-> <<>>, bodyModel |-> "none",
     selectedModel |-> "none", project_id |-> 0, projectName |-> "none",
     history |-> <<>>, searchQueries |-> <<>>, relevantChunks |-> <<>>,
     relevantVisualFindings |-> <<>>, isComplex |-> FALSE,
     decomposed |-> <<>>, subQuestions |-> <<>>, subAnswers |-> <<>>, subCalls |-> <<>>,
     log |-> <<>>,
     ret |-> NoReturn, error |-> "none"]

InitChatIdle ==
    /\ projects = ProjectRows
    /\ chats = ChatRows
    /\ messages = <<>>
    /\ chat_openai = TRUE
    /\ req = [r \in Requests |-> IdleRequest]
    /\ faults = 0

TypeStore ==
    /\ \A c \in chunks : \E d \in documents : d.id = c.document_id
    /\ \A f \in visual_findings : \E d \in documents : d.id = f.document_id

---------------------------------------------------------------------------
(* embeddings.js *)

RECURSIVE DotProduct(_, _, _)
DotProduct(a, b, i) ==
    IF i > Len(a) THEN 0 ELSE a[i] * b[i] + DotProduct(a, b, i + 1)

Sqrt(n) == CHOOSE r \in 0..n : r * r <= n /\ (r + 1) * (r + 1) > n

\* dotProduct / (sqrt(normA) * sqrt(normB)), in hundredths
cosineSimilarity(a, b) ==
    (DotProduct(a, b, 1) * 100)
        \div (Sqrt(DotProduct(a, a, 1)) * Sqrt(DotProduct(b, b, 1)))

\* The rows of a result set, in rowid order.
RECURSIVE RowsById(_)
RowsById(S) ==
    IF S = {} THEN <<>>
    ELSE LET m == CHOOSE r \in S : \A o \in S : r.id <= o.id
         IN  <<m>> \o RowsById(S \ {m})

\* SELECT c.*, d.filename, 'chunk' as source_type FROM chunks c JOIN documents d
\* ON c.document_id = d.id WHERE d.project_id = ? AND c.embedding IS NOT NULL
EmbeddedChunks(projectId) ==
    { [source_type |-> "chunk", id |-> c.id, document_id |-> c.document_id,
       page_number |-> c.page_number, sheet_number |-> c.sheet_number,
       embedding |-> c.embedding,
       filename |-> (CHOOSE d \in documents : d.id = c.document_id).filename]
      : c \in {x \in chunks :
                  /\ \E d \in documents :
                        d.id = x.document_id /\ d.project_id = projectId
                  /\ x.embedding # NoEmbedding} }

EmbeddedVisualFindings(projectId) ==
    { [source_type |-> "visual_finding", id |-> f.id,
       document_id |-> f.document_id,
       page_number |-> f.page_number, sheet_number |-> f.sheet_number,
       embedding |-> f.embedding,
       filename |-> (CHOOSE d \in documents : d.id = f.document_id).filename]
      : f \in {x \in visual_findings :
                  /\ \E d \in documents :
                        d.id = x.document_id /\ d.project_id = projectId
                  /\ x.embedding # NoEmbedding} }

Scored(item, queryEmbedding) ==
    [source_type |-> item.source_type, id |-> item.id,
     document_id |-> item.document_id, page_number |-> item.page_number,
     sheet_number |-> item.sheet_number, embedding |-> item.embedding,
     filename |-> item.filename,
     similarity |-> cosineSimilarity(queryEmbedding, item.embedding)]

\* Array.prototype.sort with (a, b) => b.similarity - a.similarity: a stable
\* sort, larger similarity first.
InsertAscending(s, x) ==
    LET k == Cardinality({i \in 1..Len(s) : s[i].similarity <= x.similarity})
    IN  SubSeq(s, 1, k) \o <<x>> \o SubSeq(s, k + 1, Len(s))

InsertDescending(s, x) ==
    LET k == Cardinality({i \in 1..Len(s) : s[i].similarity >= x.similarity})
    IN  SubSeq(s, 1, k) \o <<x>> \o SubSeq(s, k + 1, Len(s))

RECURSIVE SortBySimilarity(_, _)
SortBySimilarity(s, n) ==
    IF n = 0 THEN <<>> ELSE InsertDescending(SortBySimilarity(s, n - 1), s[n])

\* scoredContent.slice(0, topK)
Slice(s, from, to) == SubSeq(s, from + 1, Min(to, Len(s)))

searchRelevantContent(projectId, queryEmbedding, topK) ==
    LET allContent == RowsById(EmbeddedChunks(projectId))
                        \o RowsById(EmbeddedVisualFindings(projectId))
        scoredContent ==
            [i \in 1..Len(allContent) |-> Scored(allContent[i], queryEmbedding)]
    IN  IF Len(allContent) = 0 THEN <<>>
        ELSE Slice(SortBySimilarity(scoredContent, Len(scoredContent)), 0, topK)

---------------------------------------------------------------------------
(* chatHandler.js: retrieval helpers *)

collectRelatedSheetsFromCallouts(projectId, chs) ==
    LET sheetNumbers == {c.sheet_number : c \in Range(chs)} \ {NULL}
        documentIds == {c.document_id : c \in Range(chs)}
        calloutRows ==
            {r \in callouts :
                /\ r.document_id \in documentIds
                /\ (r.sheet_number \in sheetNumbers
                      \/ r.target_sheet \in sheetNumbers)}
    IN  IF sheetNumbers = {} \/ documentIds = {} THEN {}
        ELSE ({r.sheet_number : r \in calloutRows}
                \cup {r.target_sheet : r \in calloutRows}) \ {NULL}

\* The rows of a result set ORDER BY page_number ASC (rowid among equal pages).
RECURSIVE RowsByPage(_)
RowsByPage(S) ==
    IF S = {} THEN <<>>
    ELSE LET m == CHOOSE r \in S : \A o \in S :
                     \/ r.page_number < o.page_number
                     \/ r.page_number = o.page_number /\ r.id <= o.id
         IN  <<m>> \o RowsByPage(S \ {m})

\* SELECT c.*, d.filename FROM chunks c JOIN documents d ... WHERE
\* d.project_id = ? AND c.sheet_number IN (relatedSheets)
ChunksOnSheetsAnyProject(projectId, relatedSheets) ==
    { [id |-> c.id, document_id |-> c.document_id,
       page_number |-> c.page_number, sheet_number |-> c.sheet_number,
       embedding |-> c.embedding,
       filename |-> (CHOOSE d \in documents : d.id = c.document_id).filename]
      : c \in {x \in chunks : x.sheet_number \in relatedSheets} }

ChunksOnSheets(projectId, relatedSheets) ==
    { [id |-> c.id, document_id |-> c.document_id,
       page_number |-> c.page_number, sheet_number |-> c.sheet_number,
       embedding |-> c.embedding,
       filename |-> (CHOOSE d \in documents : d.id = c.document_id).filename]
      : c \in {x \in chunks :
                  /\ \E d \in documents :
                        d.id = x.document_id /\ d.project_id = projectId
                  /\ x.sheet_number \in relatedSheets} }

expandChunksWithCallouts(chs, projectId, maxAdditional) ==
    LET chunkIds == {c.id : c \in Range(chs)}
        relatedSheets == collectRelatedSheetsFromCallouts(projectId, chs)
        limited == Slice(RowsByPage(ChunksOnSheets(projectId, relatedSheets)),
                         0, maxAdditional)
        additionalChunks == SelectSeq(limited, LAMBDA c : c.id \notin chunkIds)
    IN  IF relatedSheets = {} THEN chs ELSE chs \o additionalChunks

\* maxAdditional = 6
DefaultMaxAdditional == 6

searchForAI(projectId, queryEmbedding, limit) ==
    LET relevantContent == searchRelevantContent(projectId, queryEmbedding, limit)
        cs == SelectSeq(relevantContent, LAMBDA item : item.source_type = "chunk")
        vfs == SelectSeq(relevantContent,
                         LAMBDA item : item.source_type = "visual_finding")
    IN  [chunks |-> expandChunksWithCallouts(cs, projectId, DefaultMaxAdditional),
         visualFindings |-> vfs]

\* The citations resolveSheetNumbers may return for one citation (LIMIT 1
\* without ORDER BY: whichever matching row the engine meets first).
SheetAndFileMatches(citation, projectId) ==
    { [page_number |-> c.page_number,
       filename |-> (CHOOSE d \in documents : d.id = c.document_id).filename]
      : c \in {x \in chunks :
                  /\ \E d \in documents :
                        /\ d.id = x.document_id
                        /\ d.project_id = projectId
                        /\ d.filename = citation.source
                  /\ x.sheet_number = citation.sheet} }

FileMatches(citation, projectId) ==
    { [page_number |-> c.page_number,
       filename |-> (CHOOSE d \in documents : d.id = c.document_id).filename]
      : c \in {x \in chunks :
                  \E d \in documents :
                        /\ d.id = x.document_id
                        /\ d.project_id = projectId
                        /\ d.filename = citation.source} }

\* A variant of Filled: the page filled in is the one after the page of the
\* row found.
FilledFollowingPage(citation, rows) ==
    { [citation EXCEPT !.page = r.page_number + 1, !.filename = r.filename]
      : r \in rows }

Filled(citation, rows) ==
    { [citation EXCEPT !.page = r.page_number, !.filename = r.filename]
      : r \in rows }

\* A variant of ResolveOne: without the search by filename only.
ResolveOneExactOnly(citation, projectId) ==
    IF citation.page # NoPage \/ citation.sheet = NULL THEN {citation}
    ELSE IF SheetAndFileMatches(citation, projectId) # {}
         THEN Filled(citation, SheetAndFileMatches(citation, projectId))
    ELSE {citation}

ResolveOne(citation, projectId) ==
    IF citation.page # NoPage \/ citation.sheet = NULL THEN {citation}
    ELSE IF SheetAndFileMatches(citation, projectId) # {}
         THEN Filled(citation, SheetAndFileMatches(citation, projectId))
    ELSE IF FileMatches(citation, projectId) # {}
         THEN Filled(citation, FileMatches(citation, projectId))
    ELSE {citation}

\* A variant of resolveSheetNumbers: a citation that stays without a page is
\* left out of the result.
resolveSheetNumbersResolvedOnly(citations, projectId) ==
    LET RECURSIVE Keep(_)
        Keep(l) == IF l = <<>> THEN <<>>
                   ELSE IF Head(l).page = NoPage THEN Keep(Tail(l))
                   ELSE <<Head(l)>> \o Keep(Tail(l))
        outs == UNION {ResolveOne(citations[i], projectId)
                          : i \in 1..Len(citations)}
    IN  {Keep(r) : r \in {x \in [1..Len(citations) -> outs] :
            \A i \in 1..Len(citations) :
                x[i] \in ResolveOne(citations[i], projectId)}}

\* citations.map(...): every list the call may return
resolveSheetNumbers(citations, projectId) ==
    LET outs == UNION {ResolveOne(citations[i], projectId)
                          : i \in 1..Len(citations)}
    IN  {r \in [1..Len(citations) -> outs] :
            \A i \in 1..Len(citations) : r[i] \in ResolveOne(citations[i], projectId)}

---------------------------------------------------------------------------
(* embeddings.js: generateEmbeddings, and the route that runs it *)

\* const batchSize = 2
batchSize == 2
\* setTimeout between batches, before the rate-limit retry, between items
InterBatchDelayMs == 2000
RateLimitWaitMs == 60000
ItemDelayMs == 100

\* What openai.embeddings.create answers: a response, or an error with its
\* status (and what its message or code says).
Ok == [status |-> 200, code |-> "ok"]
ProviderAnswers ==
    { Ok,
      [status |-> 429, code |-> "rate_limit_exceeded"],
      [status |-> 429, code |-> "insufficient_quota"],
      [status |-> 400, code |-> "maximum context length"],
      [status |-> 400, code |-> "invalid_request"],
      [status |-> 500, code |-> "server_error"] }
\* The retry and the per-item calls do not look at what the error is: one
\* error of each status stands for the others.
RetryAnswers ==
    { Ok,
      [status |-> 429, code |-> "insufficient_quota"],
      [status |-> 400, code |-> "maximum context length"] }
ItemAnswers ==
    { Ok,
      [status |-> 429, code |-> "rate_limit_exceeded"],
      [status |-> 400, code |-> "maximum context length"] }

NoError == [status |-> 0, code |-> "none"]
\* The summary of a pass: how it ended, on which project, whether it
\* processed every row it had selected, whether the provider signalled quota
\* exhaustion, whether a chunk was inserted after its selection.
NoPass == [status |-> "none", project |-> 0, all |-> FALSE, quota |-> FALSE,
           inserted |-> FALSE]
NoResult == [none |-> TRUE]

\* error.status === 429
IsRateLimit(error) == error.status = 429

IsContextLengthAny400(error) == error.status = 400

\* error.status === 400 && error.message.includes('maximum context length')
IsContextLength(error) ==
    error.status = 400 /\ error.code = "maximum context length"

\* response.data[j].embedding for the content of chunk id
ProviderEmbedding(id) == Cycle(Vectors, id)

IdsOf(rows) == [n \in 1..Len(rows) |-> rows[n].id]

\* SELECT c.* FROM chunks c JOIN documents d ON c.document_id = d.id
\* WHERE d.project_id = ? AND c.embedding IS NULL
AllChunkIds(projectId) ==
    IdsOf(RowsById({c \in chunks :
        \E d \in documents : d.id = c.document_id /\ d.project_id = projectId}))

UnembeddedChunkIds(projectId) ==
    IdsOf(RowsById({c \in chunks :
        /\ \E d \in documents : d.id = c.document_id /\ d.project_id = projectId
        /\ c.embedding = NoEmbedding}))

\* chunks.slice(i, i + batchSize), by id
Batch == Slice(gen_selected, gen_i, gen_i + batchSize)

\* UPDATE chunks SET embedding = ? WHERE id = ?, for each id
WithEmbeddings(ids) ==
    { IF c.id \in ids THEN [c EXCEPT !.embedding = ProviderEmbedding(c.id)] ELSE c
      : c \in chunks }

CallEvent(kind, ids, answer) ==
    [ev |-> "call", kind |-> kind, i |-> gen_i, ids |-> ids,
     status |-> answer.status, code |-> answer.code, ms |-> 0]

SleepEvent(ms) ==
    [ev |-> "sleep", kind |-> "none", i |-> gen_i, ids |-> <<>>,
     status |-> 0, code |-> "none", ms |-> ms]

\* embeddingResults.pausedForQuota
PausedForQuota(result) ==
    "pausedForQuota" \in DOMAIN result /\ result.pausedForQuota

InitGenIdle ==
    /\ gen_pc = "idle"
    /\ gen_project = 0
    /\ gen_selected = <<>>
    /\ gen_i = 0
    /\ gen_j = 0
    /\ gen_processed = 0
    /\ gen_result = NoResult
    /\ gen_error = NoError
    /\ gen_log = <<>>
    /\ gen_follows = NoPass
    /\ gen_prev = NoPass
    /\ gen_inserted = FALSE
    /\ route_outcome = "none"

\* i += batchSize, then the loop test: the next batch, or
\* return { chunksProcessed: processed }
LoopAgain(processed) ==
    /\ gen_i' = gen_i + batchSize
    /\ gen_j' = 0
    /\ gen_processed' = processed
    /\ IF gen_i + batchSize < Len(gen_selected)
       THEN gen_pc' = "batch" /\ gen_result' = gen_result
       ELSE gen_pc' = "returned" /\ gen_result' = [chunksProcessed |-> processed]

\* The route calls generateEmbeddings(projectId): the selection.
StartPass ==
    \E projectId \in Projects :
        /\ gen_pc = "idle"
        /\ gen_project' = projectId
        /\ gen_selected' = UnembeddedChunkIds(projectId)
        /\ gen_i' = 0
        /\ gen_j' = 0
        /\ gen_processed' = 0
        /\ gen_log' = <<>>
        /\ gen_error' = NoError
        /\ gen_inserted' = FALSE
        /\ gen_follows' = [gen_prev EXCEPT !.inserted = gen_inserted]
        /\ gen_prev' = NoPass
        /\ route_outcome' = "none"
        /\ IF Len(UnembeddedChunkIds(projectId)) = 0
           THEN gen_pc' = "returned" /\ gen_result' = [chunksProcessed |-> 0]
           ELSE gen_pc' = "batch" /\ gen_result' = NoResult
        /\ UNCHANGED <<storeVars, call, chatVars>>

\* The first provider call of a batch and what follows it up to the next await.
BatchCallWith(answer) ==
    /\ gen_pc = "batch"
    /\ UNCHANGED <<documents, visual_findings, callouts, call, chatVars, gen_project,
                   gen_selected, gen_follows, gen_prev, gen_inserted, route_outcome>>
    /\ IF answer = Ok
       THEN /\ chunks' = WithEmbeddings(Range(Batch))
            /\ gen_error' = gen_error
            /\ IF gen_i + batchSize < Len(gen_selected)
               THEN /\ gen_log' = gen_log \o <<CallEvent("batch", Batch, answer),
                                               SleepEvent(InterBatchDelayMs)>>
                    /\ gen_pc' = "delay"
                    /\ gen_processed' = gen_processed + Len(Batch)
                    /\ UNCHANGED <<gen_i, gen_j, gen_result>>
               ELSE /\ gen_log' = Append(gen_log, CallEvent("batch", Batch, answer))
                    /\ LoopAgain(gen_processed + Len(Batch))
       ELSE IF IsRateLimit(answer)
       THEN /\ gen_log' = gen_log \o <<CallEvent("batch", Batch, answer),
                                       SleepEvent(RateLimitWaitMs)>>
            /\ gen_pc' = "wait"
            /\ UNCHANGED <<chunks, gen_i, gen_j, gen_processed, gen_result,
                           gen_error>>
       ELSE IF IsContextLength(answer)
       THEN /\ gen_log' = Append(gen_log, CallEvent("batch", Batch, answer))
            /\ gen_pc' = "item"
            /\ gen_j' = 0
            /\ UNCHANGED <<chunks, gen_i, gen_processed, gen_result, gen_error>>
       ELSE /\ gen_log' = Append(gen_log, CallEvent("batch", Batch, answer))
            /\ gen_pc' = "raised"
            /\ gen_error' = answer
            /\ UNCHANGED <<chunks, gen_i, gen_j, gen_processed, gen_result>>

BatchCall == \E answer \in ProviderAnswers : BatchCallWith(answer)

\* The inter-batch delay has elapsed.
DelayElapsed ==
    /\ gen_pc = "delay"
    /\ LoopAgain(gen_processed)
    /\ UNCHANGED <<storeVars, call, chatVars, gen_project, gen_selected, gen_error,
                   gen_log, gen_follows, gen_prev, gen_inserted, route_outcome>>

\* A variant of RetryWith: a failed retry is logged and the loop goes on.
RetryWithSwallowed(answer) ==
    /\ gen_pc = "wait"
    /\ gen_log' = Append(gen_log, CallEvent("retry", Batch, answer))
    /\ chunks' = IF answer = Ok THEN WithEmbeddings(Range(Batch)) ELSE chunks
    /\ gen_error' = gen_error
    /\ LoopAgain(IF answer = Ok THEN gen_processed + Len(Batch) ELSE gen_processed)
    /\ UNCHANGED <<documents, visual_findings, callouts, call, chatVars, gen_project,
                   gen_selected, gen_follows, gen_prev, gen_inserted, route_outcome>>

\* After the 60 s wait: the same batch once more; `continue` on success,
\* `throw retryError` otherwise.
RetryWith(answer) ==
    /\ gen_pc = "wait"
    /\ gen_log' = Append(gen_log, CallEvent("retry", Batch, answer))
    /\ UNCHANGED <<documents, visual_findings, callouts, call, chatVars, gen_project,
                   gen_selected, gen_follows, gen_prev, gen_inserted, route_outcome>>
    /\ IF answer = Ok
       THEN /\ chunks' = WithEmbeddings(Range(Batch))
            /\ gen_error' = gen_error
            /\ LoopAgain(gen_processed + Len(Batch))
       ELSE /\ gen_pc' = "raised"
            /\ gen_error' = answer
            /\ UNCHANGED <<chunks, gen_i, gen_j, gen_processed, gen_result>>

RetryCall == \E answer \in RetryAnswers : RetryWith(answer)

\* A variant of ItemWith: a failing item aborts the pass.
ItemWithAbort(answer) ==
    /\ gen_pc = "item"
    /\ gen_log' = Append(gen_log, CallEvent("item", <<Batch[gen_j + 1]>>, answer))
    /\ UNCHANGED <<documents, visual_findings, callouts, call, chatVars, gen_project,
                   gen_selected, gen_follows, gen_prev, gen_inserted, route_outcome>>
    /\ IF answer = Ok
       THEN /\ chunks' = WithEmbeddings({Batch[gen_j + 1]})
            /\ gen_error' = gen_error
            /\ IF gen_j + 1 < Len(Batch)
               THEN /\ gen_j' = gen_j + 1
                    /\ gen_processed' = gen_processed + 1
                    /\ UNCHANGED <<gen_pc, gen_i, gen_result>>
               ELSE LoopAgain(gen_processed + 1)
       ELSE /\ gen_pc' = "raised"
            /\ gen_error' = answer
            /\ UNCHANGED <<chunks, gen_i, gen_j, gen_processed, gen_result>>

\* The fallback after a context-length error: item j of the batch on its own;
\* a failure is logged and the loop over the items goes on.
ItemWith(answer) ==
    /\ gen_pc = "item"
    /\ gen_error' = gen_error
    /\ UNCHANGED <<documents, visual_findings, callouts, call, chatVars, gen_project,
                   gen_selected, gen_follows, gen_prev, gen_inserted, route_outcome>>
    /\ chunks' = IF answer = Ok THEN WithEmbeddings({Batch[gen_j + 1]}) ELSE chunks
    /\ gen_log' =
          IF answer = Ok
          THEN gen_log \o <<CallEvent("item", <<Batch[gen_j + 1]>>, answer),
                            SleepEvent(ItemDelayMs)>>
          ELSE Append(gen_log, CallEvent("item", <<Batch[gen_j + 1]>>, answer))
    /\ LET processed == IF answer = Ok THEN gen_processed + 1 ELSE gen_processed
       IN  IF gen_j + 1 < Len(Batch)
           THEN /\ gen_j' = gen_j + 1
                /\ gen_processed' = processed
                /\ UNCHANGED <<gen_pc, gen_i, gen_result>>
           ELSE LoopAgain(processed)

ItemCall == \E answer \in ItemAnswers : ItemWith(answer)

\* routes/documents.js: the route answers the client once the pass has ended.
RouteRespond ==
    /\ gen_pc \in {"returned", "raised"}
    /\ route_outcome' =
          IF gen_pc = "raised" THEN "error"
          ELSE IF PausedForQuota(gen_result) THEN "paused"
          ELSE "complete"
    /\ gen_prev' = [status |-> gen_pc, project |-> gen_project,
                    all |-> gen_processed = Len(gen_selected),
                    quota |-> \E n \in 1..Len(gen_log) :
                                 gen_log[n].code = "insufficient_quota",
                    inserted |-> FALSE]
    /\ gen_pc' = "idle"
    /\ gen_project' = 0
    /\ gen_selected' = <<>>
    /\ gen_i' = 0
    /\ gen_j' = 0
    /\ gen_processed' = 0
    /\ gen_result' = NoResult
    /\ gen_error' = NoError
    /\ gen_log' = <<>>
    /\ gen_follows' = NoPass
    /\ UNCHANGED <<storeVars, call, chatVars, gen_inserted>>

\* documentProcessor.js: processDocument, run for another request, stores one
\* more page as a chunk. A pass touches only the rows it selected, so an
\* insertion during a pass commutes with the steps of the pass: it is taken
\* right after the selection.
InsertChunk ==
    \E k \in (MaxChunks + 1)..(MaxChunks + MaxInserts) :
        /\ gen_log = <<>>
        /\ \A c \in chunks : c.id # k
        /\ chunks' = chunks \cup {ChunkRow(k, FALSE)}
        /\ gen_inserted' = TRUE
        /\ UNCHANGED <<documents, visual_findings, callouts, call, chatVars, gen_pc,
                       gen_project, gen_selected, gen_i, gen_j, gen_processed,
                       gen_result, gen_error, gen_log, gen_follows, gen_prev,
                       route_outcome>>

InitEmbed ==
    /\ documents = DocumentRows
    /\ chunks = {ChunkRow(k, FALSE) : k \in 1..MaxChunks}
    /\ visual_findings = {}
    /\ callouts = {}
    /\ call = NoCall
    /\ InitGenIdle
    /\ InitChatIdle

NextEmbed ==
    \/ StartPass
    \/ BatchCall
    \/ DelayElapsed
    \/ RetryCall
    \/ ItemCall
    \/ RouteRespond
    \/ InsertChunk

---------------------------------------------------------------------------
(* embeddings.js: generateVisualFindingsEmbeddings, and the route that runs it *)

\* const batchSize = 10
findingsBatchSize == 10

\* SELECT vf.* FROM visual_findings vf JOIN documents d ON vf.document_id = d.id
\* WHERE d.project_id = ? AND vf.embedding IS NULL
UnembeddedFindingIds(projectId) ==
    IdsOf(RowsById({f \in visual_findings :
        /\ \E d \in documents : d.id = f.document_id /\ d.project_id = projectId
        /\ f.embedding = NoEmbedding}))

\* findings.slice(i, i + batchSize), by id
FindingsBatch == Slice(gen_selected, gen_i, gen_i + findingsBatchSize)

\* UPDATE visual_findings SET embedding = ? WHERE id = ?, for each id
WithFindingEmbeddings(ids) ==
    { IF f.id \in ids THEN [f EXCEPT !.embedding = ProviderEmbedding(f.id)] ELSE f
      : f \in visual_findings }

\* i += batchSize, then the loop test: the next batch, or
\* return { findingsProcessed: processed }
FindingsLoopAgain(processed) ==
    /\ gen_i' = gen_i + findingsBatchSize
    /\ gen_processed' = processed
    /\ IF gen_i + findingsBatchSize < Len(gen_selected)
       THEN gen_pc' = "batch" /\ gen_result' = gen_result
       ELSE gen_pc' = "returned" /\ gen_result' = [findingsProcessed |-> processed]

\* The route calls generateVisualFindingsEmbeddings(projectId): the selection.
StartFindingsPass ==
    \E projectId \in Projects :
        /\ gen_pc = "idle"
        /\ gen_project' = projectId
        /\ gen_selected' = UnembeddedFindingIds(projectId)
        /\ gen_i' = 0
        /\ gen_processed' = 0
        /\ gen_log' = <<>>
        /\ gen_error' = NoError
        /\ route_outcome' = "none"
        /\ IF Len(UnembeddedFindingIds(projectId)) = 0
           THEN gen_pc' = "returned" /\ gen_result' = [findingsProcessed |-> 0]
           ELSE gen_pc' = "batch" /\ gen_result' = NoResult
        /\ UNCHANGED <<storeVars, call, chatVars, gen_j, gen_follows, gen_prev,
                       gen_inserted>>

\* A variant of FindingsBatchCallWith that handles a failure as generateEmbeddings
\* does its last case: the error is raised.
FindingsBatchCallRaising(answer) ==
    /\ gen_pc = "batch"
    /\ UNCHANGED <<documents, chunks, callouts, call, chatVars, gen_project,
                   gen_selected, gen_j, gen_follows, gen_prev, gen_inserted,
                   route_outcome>>
    /\ gen_log' = Append(gen_log, CallEvent("batch", FindingsBatch, answer))
    /\ IF answer = Ok
       THEN /\ visual_findings' = WithFindingEmbeddings(Range(FindingsBatch))
            /\ gen_error' = gen_error
            /\ FindingsLoopAgain(gen_processed + Len(FindingsBatch))
       ELSE /\ gen_pc' = "raised"
            /\ gen_error' = answer
            /\ UNCHANGED <<visual_findings, gen_i, gen_processed, gen_result>>

\* The provider call of a batch and what follows it up to the next await: the
\* rows are written and, when a batch remains, the delay is awaited; an error
\* of any kind is logged and the loop goes on with the next batch.
FindingsBatchCallWith(answer) ==
    /\ gen_pc = "batch"
    /\ UNCHANGED <<documents, chunks, callouts, call, chatVars, gen_project,
                   gen_selected, gen_j, gen_error, gen_follows, gen_prev,
                   gen_inserted, route_outcome>>
    /\ IF answer = Ok
       THEN /\ visual_findings' = WithFindingEmbeddings(Range(FindingsBatch))
            /\ IF gen_i + findingsBatchSize < Len(gen_selected)
               THEN /\ gen_log' = gen_log
                                    \o <<CallEvent("batch", FindingsBatch, answer),
                                         SleepEvent(InterBatchDelayMs)>>
                    /\ gen_pc' = "delay"
                    /\ gen_processed' = gen_processed + Len(FindingsBatch)
                    /\ UNCHANGED <<gen_i, gen_result>>
               ELSE /\ gen_log' = Append(gen_log,
                                         CallEvent("batch", FindingsBatch, answer))
                    /\ FindingsLoopAgain(gen_processed + Len(FindingsBatch))
       ELSE /\ gen_log' = Append(gen_log,
                                 CallEvent("batch", FindingsBatch, answer))
            /\ visual_findings' = visual_findings
            /\ FindingsLoopAgain(gen_processed)

FindingsBatchCall == \E answer \in ProviderAnswers : FindingsBatchCallWith(answer)

\* The delay between two batches of findings has elapsed.
FindingsDelayElapsed ==
    /\ gen_pc = "delay"
    /\ FindingsLoopAgain(gen_processed)
    /\ UNCHANGED <<storeVars, call, chatVars, gen_project, gen_selected, gen_j,
                   gen_error, gen_log, gen_follows, gen_prev, gen_inserted,
                   route_outcome>>

\* routes/documents.js, POST /:projectId/embed-visual-findings: the route
\* answers the client once the pass has ended.
FindingsRouteRespond ==
    /\ gen_pc \in {"returned", "raised"}
    /\ route_outcome' =
          IF gen_pc = "raised" THEN "error"
          ELSE IF PausedForQuota(gen_result) THEN "paused"
          ELSE "complete"
    /\ gen_pc' = "idle"
    /\ gen_project' = 0
    /\ gen_selected' = <<>>
    /\ gen_i' = 0
    /\ gen_processed' = 0
    /\ gen_result' = NoResult
    /\ gen_error' = NoError
    /\ gen_log' = <<>>
    /\ UNCHANGED <<storeVars, call, chatVars, gen_j, gen_follows, gen_prev,
                   gen_inserted>>

\* The findings of earlier vision runs; some were embedded when they were
\* saved, or by an earlier pass.
EmbeddedFindings == { {}, {1}, 1..4 }

InitFindings ==
    /\ documents = DocumentRows
    /\ chunks = {}
    /\ \E embedded \in EmbeddedFindings :
          visual_findings = {FindingRow(k, k \in embedded) : k \in 1..MaxFindings}
    /\ callouts = {}
    /\ call = NoCall
    /\ InitGenIdle
    /\ InitChatIdle

NextFindings ==
    \/ StartFindingsPass
    \/ FindingsBatchCall
    \/ FindingsDelayElapsed
    \/ FindingsRouteRespond

---------------------------------------------------------------------------
(* chatHandler.js: sendMessage, with aiHandler.js: generateResponse *)

\* The text of a message: a sequence of spans, a span being prose or one
\* bracketed citation as the patterns of extractCitations classify it.
Text(t) ==
    [kind |-> "text", source |-> NULL, sheet |-> NULL, detail |-> NULL,
     page |-> NoPage, fullText |-> t]

SheetSpan(source, sheet, fullText) ==
    [kind |-> "sheet", source |-> source, sheet |-> sheet, detail |-> NULL,
     page |-> NoPage, fullText |-> fullText]

\* sheet: the sheet number as it is written after the slash of the detail
\* reference.
DetailSpan(source, detail, sheet, fullText) ==
    [kind |-> "detail", source |-> source, sheet |-> sheet, detail |-> detail,
     page |-> NoPage, fullText |-> fullText]

PageSpan(source, page, fullText) ==
    [kind |-> "page", source |-> source, sheet |-> NULL, detail |-> NULL,
     page |-> page, fullText |-> fullText]

\* The sheet numbers of the texts that are written in capital letters: what
\* /[A-Z]{1,3}-\d+(?:\.\d+)?/ matches without the i flag.
CapitalSheets == {"A-1", "A-2", "A-3"}

\* detailRef.match(/\/([A-Z]{1,3}-\d+(?:\.\d+)?)/): sheetMatch[1] or null
SheetOfDetail(span) == IF span.sheet \in CapitalSheets THEN span.sheet ELSE NULL

\* A variant of SheetOfDetail: the sheet number is matched in either case.
SheetOfDetailAnyCase(span) == span.sheet

\* The object pushed for a match: the sheet and page patterns carry the /gi
\* flags and take the text as written, the detail pattern derives the sheet.
Citation(span) ==
    [source |-> span.source,
     sheet |-> IF span.kind = "detail" THEN SheetOfDetail(span) ELSE span.sheet,
     detail |-> span.detail,
     page |-> span.page, fullText |-> span.fullText, filename |-> NULL]

CitationsOfKind(content, kind) ==
    LET spans == SelectSeq(content, LAMBDA x : x.kind = kind)
    IN  [n \in 1..Len(spans) |-> Citation(spans[n])]

\* The page pass: a match is pushed unless some citation collected so far,
\* by any of the passes, has its text as fullText.
RECURSIVE AddPages(_, _)
AddPages(citations, pages) ==
    IF pages = <<>> THEN citations
    ELSE LET alreadyAdded ==
                 \E n \in 1..Len(citations) :
                     citations[n].fullText = Head(pages).fullText
         IN  AddPages(IF alreadyAdded THEN citations
                      ELSE Append(citations, Head(pages)),
                      Tail(pages))

\* The sheet pass, the detail pass, then the page pass.
extractCitations(content) ==
    AddPages(CitationsOfKind(content, "sheet")
                \o CitationsOfKind(content, "detail"),
             CitationsOfKind(content, "page"))

\* What a caller may ask.
SimpleQuestion == <<Text("What is the slab thickness on level 2")>>
ComplexQuestion == <<Text("Why does the duct conflict with the beam")>>

\* MODELS: the provider of every registered model
MODELS ==
    [m \in {"gpt-4o-mini", "gpt-4o", "claude-opus-4.5", "claude-sonnet-4"} |->
        IF m \in {"gpt-4o-mini", "gpt-4o"} THEN "openai" ELSE "anthropic"]

\* What a caller passes: the question and the model to answer it with.
CallInputs ==
    [userMessage : {SimpleQuestion, ComplexQuestion},
     selectedModel : {"gpt-4o", "claude-sonnet-4"}]

HelperModel == "gpt-4o-mini"

\* What the completion provider answers to the expansion prompt.
Alternatives ==
    << <<Text("slab thickness in the structural specification")>>,
       <<Text("slab thickness shown on the drawings")>> >>

ExpandAnswers ==
    { [ok |-> FALSE, kind |-> "error", parsed |-> <<>>],
      [ok |-> TRUE, kind |-> "not json", parsed |-> <<>>],
      [ok |-> TRUE, kind |-> "array", parsed |-> <<>>],
      [ok |-> TRUE, kind |-> "array", parsed |-> Alternatives] }

\* ... and to the decomposition prompt.
SubQuestionList ==
    << <<Text("Where does the duct run")>>, <<Text("Where is the beam")>>,
       <<Text("Do the two meet")>> >>

DecomposeAnswers ==
    { [ok |-> FALSE, kind |-> "error", simple |-> FALSE, subquestions |-> <<>>],
      [ok |-> TRUE, kind |-> "not json", simple |-> FALSE, subquestions |-> <<>>],
      [ok |-> TRUE, kind |-> "object", simple |-> TRUE, subquestions |-> <<>>],
      [ok |-> TRUE, kind |-> "object", simple |-> FALSE,
       subquestions |-> SubSeq(SubQuestionList, 1, 1)],
      [ok |-> TRUE, kind |-> "object", simple |-> FALSE,
       subquestions |-> SubSeq(SubQuestionList, 1, 2)],
      [ok |-> TRUE, kind |-> "object", simple |-> FALSE,
       subquestions |-> SubQuestionList] }

\* ... and to an answer or synthesis prompt.
PlainAnswer == <<Text("The slab is 200 mm thick.")>>
CitedAnswer ==
    <<Text("The duct crosses the beam"),
      SheetSpan("A.pdf", "A-1", "[A.pdf, Sheet A-1]"),
      PageSpan("B.pdf", 2, "[B.pdf, Page 2]")>>

AnswerAnswers ==
    { [ok |-> FALSE, content |-> <<>>],
      [ok |-> TRUE, content |-> PlainAnswer],
      [ok |-> TRUE, content |-> CitedAnswer] }

\* ... and to the prompt for a sub-question: a failure, or an answer that
\* speaks of that sub-question.
SubAnswerAnswers(q) ==
    { [ok |-> FALSE, content |-> <<>>],
      [ok |-> TRUE, content |-> <<Text("As asked:")>> \o q] }

\* ... and to the title prompt: the words of the title, quote characters apart.
TitleAnswers ==
    { [ok |-> FALSE, content |-> <<>>],
      [ok |-> TRUE, content |-> <<"'", "Slab thickness", "'">>] }

noDocsMessage ==
    <<Text("I don't have any processed documents for this project yet.")>>

\* The embedding the provider answers with for a query text.
QueryTexts ==
    <<SimpleQuestion, ComplexQuestion, Alternatives[1], Alternatives[2],
      SubQuestionList[1], SubQuestionList[2], SubQuestionList[3]>>

QueryEmbedding(q) ==
    Cycle(Vectors, CHOOSE n \in 1..Len(QueryTexts) : QueryTexts[n] = q)

\* searchForAI(chat.project_id, userMessage, 15), relevantContentLimit: 15,
\* slice(0, 5) of the visual findings
SearchLimit == 15
relevantContentLimit == 15
VisualFindingsLimit == 5
\* hasManySources = relevantChunksCount > 10
ManySources == 10

\* JSON.stringify(citations), or null
NullCitations == [null |-> TRUE, list |-> <<>>]
Stringified(citations) == [null |-> FALSE, list |-> citations]

\* A variant of addMessage that keeps one message per chat: the new row
\* replaces the rows of the chat.
addMessageKeepLatest(rows, chatId, role, content, citations, callId) ==
    Append(SelectSeq(rows, LAMBDA m : m.chat_id # chatId),
           [chat_id |-> chatId, role |-> role, content |-> content,
            citations |-> citations, call |-> callId])

\* INSERT INTO messages (chat_id, role, content, citations, created_at).
\* Field call names the sendMessage call that stored the row (not a column).
addMessage(rows, chatId, role, content, citations, callId) ==
    Append(rows,
           [chat_id |-> chatId, role |-> role, content |-> content,
            citations |-> citations, call |-> callId])

\* SELECT * FROM messages WHERE chat_id = ? ORDER BY created_at ASC
getChatHistory(chatId) ==
    SelectSeq(messages, LAMBDA m : m.chat_id = chatId)

\* A variant of Validate that does not look the project up.
ValidateChatOnly(chatId) ==
    IF ~chat_openai THEN "OpenAI not initialized"
    ELSE IF ~\E c \in chats : c.id = chatId THEN "Chat not found"
    ELSE "ok"

\* The checks sendMessage makes before it stores anything.
Validate(chatId) ==
    IF ~chat_openai THEN "OpenAI not initialized"
    ELSE IF ~\E c \in chats : c.id = chatId THEN "Chat not found"
    ELSE IF ~\E c \in chats : /\ c.id = chatId
                              /\ \E p \in projects : p.id = c.project_id
         THEN "Project not found"
    ELSE "ok"

ChatOf(chatId) == CHOOSE c \in chats : c.id = chatId

\* project.name of the row SELECT * FROM projects WHERE id = ? gives
ProjectName(projectId) ==
    IF \E p \in projects : p.id = projectId
    THEN (CHOOSE p \in projects : p.id = projectId).name
    ELSE "undefined"

\* expandQuery: the parsed array when there is one with an element, the
\* question itself otherwise
expandQuery(userQuery, answer) ==
    IF answer.ok /\ answer.kind = "array" /\ Len(answer.parsed) > 0
    THEN answer.parsed
    ELSE <<userQuery>>

\* decomposeQuery: the sub-questions, or null (here the empty list)
decomposeQuery(answer) ==
    IF ~answer.ok \/ answer.kind # "object" THEN <<>>
    ELSE IF answer.simple \/ Len(answer.subquestions) = 0 THEN <<>>
    ELSE answer.subquestions

\* isComplexQuery: a long query, a complexity word, or many sources
isComplexQuery(query, relevantChunksCount) ==
    LET isLongQuery == FALSE
        hasComplexityIndicator == query = ComplexQuestion
        hasManySources == relevantChunksCount > ManySources
    IN  isLongQuery \/ hasComplexityIndicator \/ hasManySources

\* The first occurrence of every id, in order.
RECURSIVE MergeById(_, _)
MergeById(merged, items) ==
    IF items = <<>> THEN merged
    ELSE IF \E n \in 1..Len(merged) : merged[n].id = items[1].id
         THEN MergeById(merged, Tail(items))
         ELSE MergeById(Append(merged, items[1]), Tail(items))

RECURSIVE Concat(_)
Concat(lists) ==
    IF lists = <<>> THEN <<>> ELSE lists[1] \o Concat(Tail(lists))

CeilDiv(a, b) == (a + b - 1) \div b

\* Step 2 of generateResponse: one search per query, merged.
SearchAll(projectId, searchQueries) ==
    [n \in 1..Len(searchQueries) |->
        searchForAI(projectId, QueryEmbedding(searchQueries[n]),
                    CeilDiv(relevantContentLimit, Len(searchQueries)))]

\* A variant of mergedChunks that keeps every occurrence.
unmergedChunks(allResults) ==
    Concat([n \in 1..Len(allResults) |-> allResults[n].chunks])

\* The values of the Maps mergedChunks and mergedVisualFindings, in insertion
\* order: the results of the queries in the order of searchQueries.
mergedChunks(allResults) ==
    MergeById(<<>>, Concat([n \in 1..Len(allResults) |-> allResults[n].chunks]))

mergedVisualFindings(allResults) ==
    MergeById(<<>>, Concat([n \in 1..Len(allResults) |->
                               allResults[n].visualFindings]))

\* Array.from(mergedChunks.values()).slice(0, relevantContentLimit)
relevantChunks(allResults) ==
    Slice(mergedChunks(allResults), 0, relevantContentLimit)

\* Array.from(mergedVisualFindings.values()).slice(0, 5)
relevantVisualFindings(allResults) ==
    Slice(mergedVisualFindings(allResults), 0, VisualFindingsLimit)

LogEntry(purpose, model, ok) == [purpose |-> purpose, model |-> model, ok |-> ok]

Logged(r, purpose, model, ok) == Append(req[r].log, LogEntry(purpose, model, ok))

\* The provider gives an answer other than a plain success only while the
\* budget of such answers lasts.
Charge(fault) ==
    /\ fault => faults < MaxFaults
    /\ faults' = IF fault THEN faults + 1 ELSE faults

Raised(r, error, log) ==
    [req[r] EXCEPT !.pc = "raised", !.error = error, !.log = log]

\* sendMessage(chatId, userMessage, selectedModel) up to its first await: the
\* checks, then addMessage(chatId, 'user', userMessage). called: the record
\* of the call with its arguments.
sendMessage(r, called) ==
    /\ req[r].pc = "idle"
    /\ \A o \in Requests : o < r => req[o].pc # "idle"
    /\ IF Validate(called.chatId) # "ok"
       THEN /\ req' = [req EXCEPT ![r] =
                          [called EXCEPT !.pc = "raised",
                                         !.error = Validate(called.chatId)]]
            /\ messages' = messages
       ELSE /\ req' = [req EXCEPT ![r] =
                  [called EXCEPT
                      !.pc = "search",
                      !.project_id = ChatOf(called.chatId).project_id,
                      !.projectName =
                          ProjectName(ChatOf(called.chatId).project_id)]]
            /\ messages' = addMessage(messages, called.chatId, "user",
                                      called.userMessage, NullCitations, r)
    /\ UNCHANGED <<storeVars, call, genVars, projects, chats, chat_openai,
                   faults>>

\* A call of sendMessage with a question and a model.
Start(r) ==
    \E chatId \in 1..4, input \in CallInputs :
        sendMessage(r, [IdleRequest EXCEPT
                           !.chatId = chatId,
                           !.userMessage = input.userMessage,
                           !.selectedModel = input.selectedModel])

\* The body of POST /api/chats/:chatId/message as the chat page sends it:
\* message (possibly empty) and model (NULL: the body names no model).
RequestBodies ==
    [message : {<<>>, SimpleQuestion, ComplexQuestion},
     model : {NULL, "gpt-4o", "claude-sonnet-4"}]

\* async function sendMessage(chatId, userMessage, selectedModel = 'gpt-4o')
DefaultModel == "gpt-4o"

\* router.post('/:chatId/message'): const { message } = req.body; status 400
\* without a message, else sendMessage(req.params.chatId, message).
PostMessage(r) ==
    \E chatId \in 1..4, body \in RequestBodies :
        IF body.message = <<>>
        THEN /\ req[r].pc = "idle"
             /\ \A o \in Requests : o < r => req[o].pc # "idle"
             /\ req' = [req EXCEPT ![r] =
                           [IdleRequest EXCEPT !.pc = "raised",
                                               !.chatId = chatId,
                                               !.bodyModel = body.model,
                                               !.error = "Message is required"]]
             /\ UNCHANGED <<storeVars, call, genVars, projects, chats, messages,
                            chat_openai, faults>>
        ELSE sendMessage(r, [IdleRequest EXCEPT
                                !.chatId = chatId,
                                !.userMessage = body.message,
                                !.bodyModel = body.model,
                                !.selectedModel = DefaultModel])

\* A variant of SearchWith: the canned answer is returned without being
\* stored.
SearchWithCannedUnstored(r, ok) ==
    /\ req[r].pc = "search"
    /\ UNCHANGED <<storeVars, call, genVars, projects, chats, chat_openai>>
    /\ Charge(~ok)
    /\ messages' = messages
    /\ LET log == Logged(r, "search", "text-embedding-3-small", ok)
           searchResults == searchForAI(req[r].project_id,
                                        QueryEmbedding(req[r].userMessage),
                                        SearchLimit)
           all == getChatHistory(req[r].chatId)
       IN  req' = [req EXCEPT ![r] =
              IF ~ok THEN Raised(r, "embedding failed", log)
              ELSE IF Len(searchResults.chunks) = 0
                        /\ Len(searchResults.visualFindings) = 0
              THEN [req[r] EXCEPT
                      !.pc = "returned",
                      !.log = log,
                      !.ret = [role |-> "assistant",
                               content |-> noDocsMessage,
                               citations |-> <<>>]]
              ELSE [req[r] EXCEPT
                      !.pc = "expand",
                      !.log = log,
                      !.history = SubSeq(all, 1, Len(all) - 1)]]

\* await searchForAI(chat.project_id, userMessage, 15) settles: the canned
\* answer when nothing is found, else the history is read and generateResponse
\* runs up to the call of expandQuery.
SearchWith(r, ok) ==
    /\ req[r].pc = "search"
    /\ UNCHANGED <<storeVars, call, genVars, projects, chats, chat_openai>>
    /\ Charge(~ok)
    /\ LET log == Logged(r, "search", "text-embedding-3-small", ok)
           searchResults == searchForAI(req[r].project_id,
                                        QueryEmbedding(req[r].userMessage),
                                        SearchLimit)
           all == getChatHistory(req[r].chatId)
       IN  IF ~ok
           THEN /\ req' = [req EXCEPT ![r] = Raised(r, "embedding failed", log)]
                /\ messages' = messages
           ELSE IF Len(searchResults.chunks) = 0
                     /\ Len(searchResults.visualFindings) = 0
           THEN /\ messages' = addMessage(messages, req[r].chatId, "assistant",
                                          noDocsMessage, NullCitations, r)
                /\ req' = [req EXCEPT ![r] =
                              [req[r] EXCEPT
                                  !.pc = "returned",
                                  !.log = log,
                                  !.ret = [role |-> "assistant",
                                           content |-> noDocsMessage,
                                           citations |-> <<>>]]]
           ELSE /\ messages' = messages
                /\ req' = [req EXCEPT ![r] =
                              [req[r] EXCEPT
                                  !.pc = "expand",
                                  !.log = log,
                                  !.history = SubSeq(all, 1, Len(all) - 1)]]

Search(r) == \E ok \in BOOLEAN : SearchWith(r, ok)

\* await expandQuery(question, 'gpt-4o-mini') settles; the searches start.
Expand(r) ==
    \E answer \in ExpandAnswers :
        /\ req[r].pc = "expand"
        /\ req' = [req EXCEPT ![r] =
                      [req[r] EXCEPT
                          !.pc = "retrieve",
                          !.log = Logged(r, "expand", HelperModel, answer.ok),
                          !.searchQueries =
                              <<req[r].userMessage>>
                                 \o expandQuery(req[r].userMessage, answer)]]
        /\ UNCHANGED <<storeVars, call, genVars, projects, chats, messages,
                       chat_openai>>
        /\ Charge(expandQuery(req[r].userMessage, answer) # answer.parsed)

\* await Promise.all(searches) settles: merge, format, isComplexQuery, and on
\* to decomposeQuery or to the direct answer.
Retrieve(r) ==
    \E ok \in BOOLEAN :
        /\ req[r].pc = "retrieve"
        /\ UNCHANGED <<storeVars, call, genVars, projects, chats, messages,
                       chat_openai>>
        /\ Charge(~ok)
        /\ LET log == Logged(r, "search", "text-embedding-3-small", ok)
               allResults == SearchAll(req[r].project_id, req[r].searchQueries)
               isComplex == isComplexQuery(req[r].userMessage,
                                           Len(relevantChunks(allResults)))
           IN  IF ~ok
               THEN req' = [req EXCEPT ![r] = Raised(r, "embedding failed", log)]
               ELSE req' = [req EXCEPT ![r] =
                       [req[r] EXCEPT
                           !.pc = IF isComplex THEN "decompose" ELSE "answer",
                           !.log = log,
                           !.relevantChunks = IdsOf(relevantChunks(allResults)),
                           !.relevantVisualFindings =
                               IdsOf(relevantVisualFindings(allResults)),
                           !.isComplex = isComplex]]

\* A variant of Decompose that decomposes on any list with a sub-question.
DecomposeAnyList(r) ==
    \E answer \in DecomposeAnswers :
        /\ req[r].pc = "decompose"
        /\ LET subQuestions == decomposeQuery(answer)
               shouldDecompose == Len(subQuestions) > 0
           IN  req' = [req EXCEPT ![r] =
                   [req[r] EXCEPT
                       !.pc = IF shouldDecompose THEN "subsearch" ELSE "answer",
                       !.log = Logged(r, "decompose", HelperModel, answer.ok),
                       !.decomposed = subQuestions,
                       !.subQuestions =
                           IF shouldDecompose THEN subQuestions ELSE <<>>]]
        /\ UNCHANGED <<storeVars, call, genVars, projects, chats, messages,
                       chat_openai>>
        /\ Charge(~answer.ok \/ answer.kind # "object")

\* await decomposeQuery(question, 'gpt-4o-mini') settles: decomposed is what it
\* returned, subQuestions the list handed to answerWithDecomposition.
Decompose(r) ==
    \E answer \in DecomposeAnswers :
        /\ req[r].pc = "decompose"
        /\ LET subQuestions == decomposeQuery(answer)
               shouldDecompose == Len(subQuestions) > 1
           IN  req' = [req EXCEPT ![r] =
                   [req[r] EXCEPT
                       !.pc = IF shouldDecompose THEN "subsearch" ELSE "answer",
                       !.log = Logged(r, "decompose", HelperModel, answer.ok),
                       !.decomposed = subQuestions,
                       !.subQuestions =
                           IF shouldDecompose THEN subQuestions ELSE <<>>]]
        /\ UNCHANGED <<storeVars, call, genVars, projects, chats, messages,
                       chat_openai>>
        /\ Charge(~answer.ok \/ answer.kind # "object")

\* What sendMessage does once generateResponse has returned the text:
\* extractCitations, resolveSheetNumbers, addMessage, and the test for the
\* title call.
Finish(r, log, subCalls, assistantMessage) ==
    \E citations \in resolveSheetNumbers(extractCitations(assistantMessage),
                                         req[r].project_id) :
        /\ messages' = addMessage(messages, req[r].chatId, "assistant",
                                  assistantMessage, Stringified(citations),
                                  r)
        /\ req' = [req EXCEPT ![r] =
                      [req[r] EXCEPT
                          !.pc = IF Len(req[r].history) = 1
                                 THEN "title" ELSE "returned",
                          !.log = log,
                          !.subCalls = subCalls,
                          !.ret = [role |-> "assistant",
                                   content |-> assistantMessage,
                                   citations |-> citations]]]

\* A variant of AnswerWith: when the selected model fails the question is
\* answered with the helper model.
AnswerWithFallback(r, answer) ==
    /\ req[r].pc = "answer"
    /\ UNCHANGED <<storeVars, call, genVars, projects, chats, chat_openai>>
    /\ Charge(~answer.ok)
    /\ IF answer.ok
       THEN Finish(r, Logged(r, "answer", req[r].selectedModel, TRUE), <<>>,
                   answer.content)
       ELSE Finish(r, Logged(r, "answer", req[r].selectedModel, FALSE)
                         \o <<LogEntry("answer", HelperModel, TRUE)>>,
                   <<>>, PlainAnswer)

\* await answerWithChainOfThought(question, context, ...) settles: the direct
\* answer with the selected model.
AnswerWith(r, answer) ==
    /\ req[r].pc = "answer"
    /\ UNCHANGED <<storeVars, call, genVars, projects, chats, chat_openai>>
    /\ Charge(~answer.ok)
    /\ LET log == Logged(r, "answer", req[r].selectedModel, answer.ok)
       IN  IF answer.ok
           THEN Finish(r, log, <<>>, answer.content)
           ELSE /\ req' = [req EXCEPT ![r] = Raised(r, "completion failed", log)]
                /\ messages' = messages

Answer(r) == \E answer \in AnswerAnswers : AnswerWith(r, answer)

\* answerWithDecomposition: the sub-question of the current turn of the loop,
\* the sub-questions answered so far with their answers (previousContext),
\* and the record of a call the function made.
subQ(r) ==
    IF Len(req[r].subAnswers) < Len(req[r].subQuestions)
    THEN req[r].subQuestions[Len(req[r].subAnswers) + 1]
    ELSE <<>>

previousContext(r) ==
    [i \in 1..Len(req[r].subAnswers) |->
        [question |-> req[r].subQuestions[i], answer |-> req[r].subAnswers[i]]]

SubCall(kind, query, context, answer) ==
    [kind |-> kind, query |-> query, context |-> context,
     ok |-> answer.ok, content |-> answer.content]

SubSearchLimit == 10

\* answerWithDecomposition: await searchFunction(projectId, subQ, 10) settles.
SubSearch(r) ==
    \E ok \in BOOLEAN :
        /\ req[r].pc = "subsearch"
        /\ LET subCalls ==
                   Append(req[r].subCalls,
                          SubCall("search", subQ(r), <<>>,
                                  [ok |-> ok,
                                   content |->
                                      IF ok
                                      THEN IdsOf(searchForAI(req[r].project_id,
                                                     QueryEmbedding(subQ(r)),
                                                     SubSearchLimit).chunks)
                                      ELSE <<>>]))
           IN  req' = [req EXCEPT ![r] =
                  IF ok
                  THEN [req[r] EXCEPT
                          !.pc = "subanswer",
                          !.subCalls = subCalls,
                          !.log = Logged(r, "search", "text-embedding-3-small",
                                         TRUE)]
                  ELSE [Raised(r, "embedding failed",
                               Logged(r, "search", "text-embedding-3-small",
                                      FALSE))
                          EXCEPT !.subCalls = subCalls]]
        /\ UNCHANGED <<storeVars, call, genVars, projects, chats, messages,
                       chat_openai>>
        /\ Charge(~ok)

\* A variant of SubAnswer: each sub-question is answered from its own
\* retrieval only, the earlier answers left out of the context.
SubAnswerAlone(r) ==
    \E answer \in SubAnswerAnswers(subQ(r)) :
        /\ req[r].pc = "subanswer"
        /\ LET log == Logged(r, "subanswer", req[r].selectedModel, answer.ok)
               subCalls == Append(req[r].subCalls,
                                  SubCall("answer", subQ(r), <<>>, answer))
           IN  req' = [req EXCEPT ![r] =
                  IF ~answer.ok
                  THEN [Raised(r, "completion failed", log)
                          EXCEPT !.subCalls = subCalls]
                  ELSE [req[r] EXCEPT
                          !.pc = IF Len(req[r].subAnswers) + 1
                                      < Len(req[r].subQuestions)
                                 THEN "subsearch" ELSE "synthesis",
                          !.log = log,
                          !.subCalls = subCalls,
                          !.subAnswers = Append(req[r].subAnswers,
                                                answer.content)]]
        /\ UNCHANGED <<storeVars, call, genVars, projects, chats, messages,
                       chat_openai>>
        /\ Charge(~answer.ok)

\* answerWithDecomposition: the answer to the current sub-question settles.
SubAnswer(r) ==
    \E answer \in SubAnswerAnswers(subQ(r)) :
        /\ req[r].pc = "subanswer"
        /\ LET log == Logged(r, "subanswer", req[r].selectedModel, answer.ok)
               subCalls == Append(req[r].subCalls,
                                  SubCall("answer", subQ(r), previousContext(r),
                                          answer))
           IN  req' = [req EXCEPT ![r] =
                  IF ~answer.ok
                  THEN [Raised(r, "completion failed", log)
                          EXCEPT !.subCalls = subCalls]
                  ELSE [req[r] EXCEPT
                          !.pc = IF Len(req[r].subAnswers) + 1
                                      < Len(req[r].subQuestions)
                                 THEN "subsearch" ELSE "synthesis",
                          !.log = log,
                          !.subCalls = subCalls,
                          !.subAnswers = Append(req[r].subAnswers,
                                                answer.content)]]
        /\ UNCHANGED <<storeVars, call, genVars, projects, chats, messages,
                       chat_openai>>
        /\ Charge(~answer.ok)

\* answerWithDecomposition: the synthesis call settles.
Synthesis(r) ==
    \E answer \in AnswerAnswers :
        /\ req[r].pc = "synthesis"
        /\ UNCHANGED <<storeVars, call, genVars, projects, chats, chat_openai>>
        /\ Charge(~answer.ok)
        /\ LET log == Logged(r, "synthesis", req[r].selectedModel, answer.ok)
               subCalls == Append(req[r].subCalls,
                                  SubCall("synthesis", <<>>, previousContext(r),
                                          answer))
           IN  IF answer.ok
               THEN Finish(r, log, subCalls, answer.content)
               ELSE /\ req' = [req EXCEPT ![r] =
                                  [Raised(r, "completion failed", log)
                                     EXCEPT !.subCalls = subCalls]]
                    /\ messages' = messages

\* title.trim().replace(/^["']|["']$/g, '')
StripQuotes(title) ==
    LET quote(t) == t \in {"'", "\""}
        from == IF Len(title) > 0 /\ quote(title[1]) THEN 2 ELSE 1
        to == IF Len(title) > 0 /\ quote(title[Len(title)])
              THEN Len(title) - 1 ELSE Len(title)
    IN  SubSeq(title, from, to)

\* A variant of Title: a failure of the title call is raised to the caller.
TitleRaising(r) ==
    \E answer \in TitleAnswers :
        /\ req[r].pc = "title"
        /\ chats' = IF answer.ok
                    THEN {IF c.id = req[r].chatId
                          THEN [c EXCEPT !.title = StripQuotes(answer.content)]
                          ELSE c : c \in chats}
                    ELSE chats
        /\ req' = [req EXCEPT ![r] =
                      IF answer.ok
                      THEN [req[r] EXCEPT
                              !.pc = "returned",
                              !.log = Logged(r, "title", HelperModel, TRUE)]
                      ELSE Raised(r, "completion failed",
                                  Logged(r, "title", HelperModel, FALSE))]
        /\ UNCHANGED <<storeVars, call, genVars, projects, messages,
                       chat_openai>>
        /\ Charge(~answer.ok)

\* The title call settles; sendMessage returns.
Title(r) ==
    \E answer \in TitleAnswers :
        /\ req[r].pc = "title"
        /\ chats' = IF answer.ok
                    THEN {IF c.id = req[r].chatId
                          THEN [c EXCEPT !.title = StripQuotes(answer.content)]
                          ELSE c : c \in chats}
                    ELSE chats
        /\ req' = [req EXCEPT ![r] =
                      [req[r] EXCEPT
                          !.pc = "returned",
                          !.log = Logged(r, "title", HelperModel, answer.ok)]]
        /\ UNCHANGED <<storeVars, call, genVars, projects, messages,
                       chat_openai>>
        /\ Charge(~answer.ok)

\* routes/chat.js: the route answers the client (res.json or status 500).
Respond(r) ==
    /\ req[r].pc \in {"returned", "raised"}
    /\ req' = [req EXCEPT ![r] = [IdleRequest EXCEPT !.pc = "done"]]
    /\ UNCHANGED <<storeVars, call, genVars, projects, chats, messages,
                   chat_openai>>
    /\ UNCHANGED faults

InitChat ==
    /\ documents = DocumentRows
    /\ chunks = {ChunkRow(k, k % 3 # 0) : k \in 1..MaxChunks}
    /\ visual_findings = {FindingRow(1, TRUE)}
    /\ callouts = {}
    /\ call = NoCall
    /\ InitGenIdle
    /\ projects = ProjectRows
    /\ chats = ChatRows
    /\ messages = <<>>
    /\ chat_openai \in BOOLEAN
    /\ req = [r \in Requests |-> IdleRequest]
    /\ faults = 0

NextChat ==
    \E r \in Requests :
        \/ Start(r)
        \/ Search(r)
        \/ Expand(r)
        \/ Retrieve(r)
        \/ Decompose(r)
        \/ Answer(r)
        \/ SubSearch(r)
        \/ SubAnswer(r)
        \/ Synthesis(r)
        \/ Title(r)
        \/ Respond(r)

\* The requests POST /api/chats/:chatId/message
NextRoute ==
    \E r \in Requests :
        \/ PostMessage(r)
        \/ Search(r)
        \/ Expand(r)
        \/ Retrieve(r)
        \/ Decompose(r)
        \/ Answer(r)
        \/ SubSearch(r)
        \/ SubAnswer(r)
        \/ Synthesis(r)
        \/ Title(r)
        \/ Respond(r)

---------------------------------------------------------------------------
(* SpecSearch: calls of the retrieval functions on a bounded family of stores *)

\* Citations as extractCitations produces them.
CitationInputs ==
    { [source |-> "A.pdf", sheet |-> "A-2", detail |-> NULL, page |-> NoPage,
       fullText |-> "[A.pdf, Sheet A-2]", filename |-> NULL],
      [source |-> "A.pdf", sheet |-> "A-3", detail |-> "1/A-3", page |-> NoPage,
       fullText |-> "[A.pdf, Detail 1/A-3]", filename |-> NULL],
      [source |-> "X.pdf", sheet |-> "A-1", detail |-> NULL, page |-> NoPage,
       fullText |-> "[X.pdf, Sheet A-1]", filename |-> NULL],
      [source |-> "B.pdf", sheet |-> NULL, detail |-> NULL, page |-> 9,
       fullText |-> "[B.pdf, Page 9]", filename |-> NULL] }

CitationLists ==
    UNION {[1..n -> CitationInputs] : n \in 0..MaxCitations}

InitSearch ==
    /\ documents = DocumentRows
    /\ \E embedded \in SUBSET (1..MaxChunks) :
          chunks = {ChunkRow(k, k \in embedded) : k \in 1..MaxChunks}
    /\ \E embedded \in SUBSET (1..2) :
          visual_findings = {FindingRow(k, k \in embedded) : k \in 1..2}
    /\ callouts \in CalloutFamilies
    /\ call = NoCall
    /\ InitGenIdle
    /\ InitChatIdle

SearchRelevantContent ==
    \E projectId \in Projects, q \in Range(Vectors), topK \in 1..MaxTopK :
        /\ call.op = "none"
        /\ call' = [op |-> "searchRelevantContent", projectId |-> projectId,
                    topK |-> topK, query |-> q, citations |-> <<>>,
                    ret |-> searchRelevantContent(projectId, q, topK)]
        /\ UNCHANGED <<storeVars, genVars, chatVars>>

SearchForAI ==
    \E projectId \in Projects, q \in Range(Vectors), topK \in 1..MaxTopK :
        /\ call.op = "none"
        /\ call' = [op |-> "searchForAI", projectId |-> projectId,
                    topK |-> topK, query |-> q, citations |-> <<>>,
                    ret |-> searchForAI(projectId, q, topK)]
        /\ UNCHANGED <<storeVars, genVars, chatVars>>

ResolveSheetNumbers ==
    /\ call.op = "none"
    /\ \E projectId \in Projects, citations \in CitationLists :
          \E out \in resolveSheetNumbers(citations, projectId) :
              /\ call' = [op |-> "resolveSheetNumbers", projectId |-> projectId,
                          topK |-> 0, query |-> <<>>, citations |-> citations,
                          ret |-> out]
              /\ UNCHANGED <<storeVars, genVars, chatVars>>

\* A call expandChunksWithCallouts(chunks, projectId, maxAdditional) on the
\* chunks a search returned (the record keeps the chunks under citations and
\* maxAdditional under topK).
GivenChunks(projectId, q, topK) ==
    SelectSeq(searchRelevantContent(projectId, q, topK),
              LAMBDA item : item.source_type = "chunk")

ExpandChunksWithCallouts ==
    \E projectId \in Projects, q \in Range(Vectors), topK \in 1..MaxTopK,
       maxAdditional \in 1..MaxAdditional :
        /\ call.op = "none"
        /\ LET chs == GivenChunks(projectId, q, topK)
           IN  call' = [op |-> "expandChunksWithCallouts",
                        projectId |-> projectId, topK |-> maxAdditional,
                        query |-> q, citations |-> chs,
                        ret |-> expandChunksWithCallouts(chs, projectId,
                                                         maxAdditional)]
        /\ UNCHANGED <<storeVars, genVars, chatVars>>

\* The caller takes the result; the next call can be made.
ReturnSearch ==
    /\ call.op # "none"
    /\ call' = NoCall
    /\ UNCHANGED <<storeVars, genVars, chatVars>>

NextSearch ==
    \/ SearchRelevantContent \/ SearchForAI \/ ExpandChunksWithCallouts
    \/ ResolveSheetNumbers \/ ReturnSearch

---------------------------------------------------------------------------
(* SpecCite: calls of extractCitations on bounded answer texts *)

\* The spans an answer text is made of: prose, and bracketed citations in
\* capitals and in lower case.
SpanInputs ==
    { Text("The duct crosses the beam"),
      SheetSpan("A.pdf", "A-1", "[A.pdf, Sheet A-1]"),
      SheetSpan("A.pdf", "a-2", "[A.pdf, sheet a-2]"),
      DetailSpan("A.pdf", "1/A-3", "A-3", "[A.pdf, Detail 1/A-3]"),
      DetailSpan("A.pdf", "1/a-3", "a-3", "[A.pdf, detail 1/a-3]"),
      PageSpan("B.pdf", 2, "[B.pdf, Page 2]"),
      PageSpan("B.pdf", 9, "[B.pdf, page 9]") }

Contents == UNION {[1..n -> SpanInputs] : n \in 0..MaxSpans}

InitCite ==
    /\ documents = DocumentRows
    /\ chunks = {ChunkRow(k, TRUE) : k \in 1..MaxChunks}
    /\ visual_findings = {}
    /\ callouts = {}
    /\ call = NoCall
    /\ InitGenIdle
    /\ InitChatIdle

ExtractCitations ==
    \E content \in Contents :
        /\ call.op = "none"
        /\ call' = [op |-> "extractCitations", projectId |-> 0, topK |-> 0,
                    query |-> content, citations |-> <<>>,
                    ret |-> extractCitations(content)]
        /\ UNCHANGED <<storeVars, genVars, chatVars>>

NextCite == ExtractCitations \/ ReturnSearch

---------------------------------------------------------------------------
(* aiHandler.js: generateResponse, the merge of the results of the searches *)

Run(a, n) == [k \in 1..n |-> a + k - 1]

Reverse(s) == [k \in 1..Len(s) |-> s[Len(s) + 1 - k]]

\* The items of a search result: each carries the query that found it.
Items(ids, q) == [k \in 1..Len(ids) |-> [id |-> ids[k], query |-> q]]

\* What searchFunction(projectId, q, ...) resolves to for the q-th query:
\* chunks of consecutive ids and visual findings of consecutive ids, in
\* either order.
SearchResults(q) ==
    { [chunks |-> Items(IF rev THEN Reverse(Run(a, n)) ELSE Run(a, n), q),
       visualFindings |-> Items(IF rev THEN Run(c, m) ELSE Reverse(Run(c, m)), q)]
      : a \in {1, 4, 9}, n \in {0, 6, MaxRun}, c \in {1, 3}, m \in {0, 4},
        rev \in BOOLEAN }

\* allResults for the question alone, and for the question with an alternative
AllResults ==
    { <<x>> : x \in SearchResults(1) }
      \cup { <<x, y>> : x \in SearchResults(1), y \in SearchResults(2) }

\* Step 2 of generateResponse once every search has resolved.
MergeResults ==
    \E allResults \in AllResults :
        /\ call.op = "none"
        /\ call' = [op |-> "generateResponse", projectId |-> 0, topK |-> 0,
                    query |-> allResults, citations |-> <<>>,
                    ret |-> [relevantChunks |-> relevantChunks(allResults),
                             relevantVisualFindings |->
                                 relevantVisualFindings(allResults)]]
        /\ UNCHANGED <<storeVars, genVars, chatVars>>

InitMerge ==
    /\ documents = DocumentRows
    /\ chunks = {}
    /\ visual_findings = {}
    /\ callouts = {}
    /\ call = NoCall
    /\ InitGenIdle
    /\ InitChatIdle

NextMerge == MergeResults \/ ReturnSearch

---------------------------------------------------------------------------
(* documentProcessor.js: processProject, run by POST /:projectId/process *)

\* The text pdf-parse extracts from a page: a drawing sheet with a title block
\* and two detail callouts (the second in lower case and without a hyphen), a page without text, a page of notes, a page of
\* specification text longer than a chunk may be.
PlanText == "SHEET: A-1 FLOOR PLAN SEE DETAIL 3/A-2 AND SEE 4/a101"
BlankText == "   "
NotesText == "GENERAL NOTES"
LongText == "SECTION 03 30 00 CAST-IN-PLACE CONCRETE ..."

PageTextCycle == <<PlanText, BlankText, NotesText, LongText>>

\* pageTexts of the PDF of a document
PdfPages(documentId) ==
    [n \in 1..MaxPages |-> Cycle(PageTextCycle, n + documentId - 1)]

\* pageText.length of the trimmed text
TextLength(t) ==
    CASE t = PlanText -> 53
      [] t = NotesText -> 13
      [] t = LongText -> 7000
      [] OTHER -> 0

\* pageTexts[pageNum].trim()
Trim(t) == IF t = BlankText THEN "" ELSE t

MAX_CHUNK_LENGTH == 6000

\* pageText.substring(0, MAX_CHUNK_LENGTH) + '... [truncated]', or pageText
truncatedText(pageText) ==
    [text |-> pageText, truncated |-> TextLength(pageText) > MAX_CHUNK_LENGTH]

extractSheetNumber(pageText) == IF pageText = PlanText THEN "A-1" ELSE NULL

\* detailPattern is case-insensitive and makes the hyphen optional; the
\* normalisation inserts a hyphen after capital letters only.
extractDetailReferences(pageText) ==
    IF pageText = PlanText THEN <<"3/A-2", "4/a101">> ELSE <<>>

parseDetailReference(detailReference) ==
    IF detailReference = "3/A-2"
    THEN [detailNumber |-> "3", targetSheet |-> "A-2"]
    ELSE [detailNumber |-> NULL, targetSheet |-> NULL]

\* Table documents as the upload route leaves it: processed = 0.
UploadedDocuments ==
    { [id |-> d.id, project_id |-> d.project_id, filename |-> d.filename,
       page_count |-> 0, processed |-> 0] : d \in DocumentRows }

\* AUTOINCREMENT
NextId(rows) == Cardinality(rows) + 1

\* The rows of chunks after the INSERT for page pageNum of the document, made
\* only for a page whose trimmed text is not empty.
WithChunk(rows, documentId, pageNum) ==
    LET pageText == Trim(PdfPages(documentId)[pageNum])
    IN  IF TextLength(pageText) > 0
        THEN rows \cup
               {[id |-> NextId(rows),
                 document_id |-> documentId,
                 page_number |-> pageNum,
                 sheet_number |-> extractSheetNumber(pageText),
                 detail_reference |-> extractDetailReferences(pageText),
                 content |-> truncatedText(pageText),
                 embedding |-> NoEmbedding]}
        ELSE rows

\* A variant of WithCallout that stores a row for a parsed reference only.
WithCalloutParsedOnly(rows, documentId, pageNum, detailRef) ==
    LET pageText == Trim(PdfPages(documentId)[pageNum])
        parsed == parseDetailReference(detailRef)
    IN  IF parsed.detailNumber = NULL THEN rows
        ELSE rows \cup {[id |-> NextId(rows),
                         document_id |-> documentId,
                         page_number |-> pageNum,
                         sheet_number |-> extractSheetNumber(pageText),
                         detail_reference |-> detailRef,
                         detail_number |-> parsed.detailNumber,
                         target_sheet |-> parsed.targetSheet]}

\* The rows of callouts after the INSERT for one detail reference of the page.
WithCallout(rows, documentId, pageNum, detailRef) ==
    LET pageText == Trim(PdfPages(documentId)[pageNum])
        parsed == parseDetailReference(detailRef)
    IN  rows \cup {[id |-> NextId(rows),
                    document_id |-> documentId,
                    page_number |-> pageNum,
                    sheet_number |-> extractSheetNumber(pageText),
                    detail_reference |-> detailRef,
                    detail_number |-> parsed.detailNumber,
                    target_sheet |-> parsed.targetSheet]}

\* The rows of callouts after the INSERTs for the detail references of the page.
RECURSIVE WithCallouts(_, _, _, _)
WithCallouts(rows, documentId, pageNum, detailRefs) ==
    IF detailRefs = <<>> THEN rows
    ELSE WithCallouts(WithCallout(rows, documentId, pageNum, Head(detailRefs)),
                      documentId, pageNum, Tail(detailRefs))

\* The loop over pageTexts up to page upTo: tables chunks and callouts.
RECURSIVE StoredChunks(_, _, _)
StoredChunks(rows, documentId, upTo) ==
    IF upTo = 0 THEN rows
    ELSE WithChunk(StoredChunks(rows, documentId, upTo - 1), documentId, upTo)

RECURSIVE StoredCallouts(_, _, _)
StoredCallouts(rows, documentId, upTo) ==
    IF upTo = 0 THEN rows
    ELSE LET pageText == Trim(PdfPages(documentId)[upTo])
         IN  WithCallouts(StoredCallouts(rows, documentId, upTo - 1),
                          documentId, upTo,
                          IF TextLength(pageText) > 0
                          THEN extractDetailReferences(pageText) ELSE <<>>)

\* A run of processProject that has not started.
IdleProcess ==
    [pc |-> "idle", projectId |-> 0, docs |-> <<>>, i |-> 0, results |-> <<>>]

\* getQuery('SELECT * FROM documents WHERE project_id = ? AND processed = 0'),
\* the ids in the order of the table
RECURSIVE Ascending(_)
Ascending(ids) ==
    IF ids = {} THEN <<>>
    ELSE LET least == CHOOSE x \in ids : \A y \in ids : x <= y
         IN  <<least>> \o Ascending(ids \ {least})

Unprocessed(projectId) ==
    Ascending({d.id : d \in {x \in documents :
                                x.project_id = projectId /\ x.processed = 0}})

\* processProject(projectId) up to its first await: the selection, and for the
\* first document processDocument up to await pdfParse(dataBuffer, ...).
StartProcess(r) ==
    \E projectId \in Projects :
        /\ req[r].pc = "idle"
        /\ \A o \in Requests : o < r => req[o].pc # "idle"
        /\ LET docs == Unprocessed(projectId)
           IN  req' = [req EXCEPT ![r] =
                  [IdleProcess EXCEPT
                      !.pc = IF docs = <<>> THEN "returned" ELSE "parsing",
                      !.projectId = projectId,
                      !.docs = docs,
                      !.i = IF docs = <<>> THEN 0 ELSE 1]]
        /\ UNCHANGED <<storeVars, call, genVars, projects, chats, messages,
                       chat_openai, faults>>

\* The outcomes of processDocument after pdfParse settles: pdfParse rejects;
\* every query succeeds; a query throws once the rows of the first `stored`
\* pages are written (runQuery writes the database file after every query).
ProcessOutcomes ==
    { [kind |-> "rejected", stored |-> 0], [kind |-> "processed", stored |-> MaxPages] }
      \cup { [kind |-> "threw", stored |-> k] : k \in 0..MaxPages }

\* await pdfParse settles for document docs[i]: the rest of processDocument,
\* the catch of processProject, and the next turn of its loop up to the next
\* await, or its return.
Parsed(r) ==
    \E outcome \in ProcessOutcomes :
        /\ req[r].pc = "parsing"
        /\ Charge(outcome.kind # "processed")
        /\ LET documentId == req[r].docs[req[r].i]
               pageCount == Len(PdfPages(documentId))
               last == req[r].i = Len(req[r].docs)
           IN  /\ documents' =
                     IF outcome.kind = "rejected" THEN documents
                     ELSE {IF d.id = documentId
                           THEN [d EXCEPT
                                   !.page_count = pageCount,
                                   !.processed = IF outcome.kind = "processed"
                                                 THEN 1 ELSE d.processed]
                           ELSE d : d \in documents}
               /\ chunks' = StoredChunks(chunks, documentId, outcome.stored)
               /\ callouts' = StoredCallouts(callouts, documentId, outcome.stored)
               /\ req' = [req EXCEPT ![r] =
                     [req[r] EXCEPT
                         !.pc = IF last THEN "returned" ELSE "parsing",
                         !.i = IF last THEN req[r].i ELSE req[r].i + 1,
                         !.results =
                             Append(req[r].results,
                                    [documentId |-> documentId,
                                     success |-> outcome.kind = "processed"])]]
        /\ UNCHANGED <<visual_findings, call, genVars, projects, chats, messages,
                       chat_openai>>

\* processProject returns its results to the route.
ReturnProcess(r) ==
    /\ req[r].pc = "returned"
    /\ req' = [req EXCEPT ![r] = [IdleProcess EXCEPT !.pc = "done"]]
    /\ UNCHANGED <<storeVars, call, genVars, projects, chats, messages,
                   chat_openai, faults>>

InitProcess ==
    /\ documents = UploadedDocuments
    /\ chunks = {}
    /\ visual_findings = {}
    /\ callouts = {}
    /\ call = NoCall
    /\ InitGenIdle
    /\ projects = ProjectRows
    /\ chats = ChatRows
    /\ messages = <<>>
    /\ chat_openai = TRUE
    /\ req = [r \in Requests |-> IdleProcess]
    /\ faults = 0

NextProcess ==
    \E r \in Requests : StartProcess(r) \/ Parsed(r) \/ ReturnProcess(r)

---------------------------------------------------------------------------
(* services/vision.js: analyzeProjectVision, run by POST /:projectId/vision *)

\* Table documents with the type given at upload.
TypedDocuments ==
    { [id |-> d.id, project_id |-> d.project_id, filename |-> d.filename,
       type |-> IF d.id = 2 THEN "spec" ELSE "drawing"] : d \in DocumentRows }

ImagePath(k) == <<"page", k>>

\* The chunks after the pages were rasterized: every chunk has an image path.
ImageChunk(k) ==
    [id |-> k,
     document_id |-> ChunkRow(k, FALSE).document_id,
     page_number |-> ChunkRow(k, FALSE).page_number,
     sheet_number |-> ChunkRow(k, FALSE).sheet_number,
     image_path |-> ImagePath(k),
     embedding |-> NoEmbedding]

\* fs.existsSync(chunk.image_path): the image of every third chunk is gone.
existsSync(imagePath) == imagePath[2] % 3 # 0

\* classifySheetType(sheetNumber, content): the sheets of the model carry the
\* prefix A.
classifySheetType(sheetNumber) ==
    IF sheetNumber = NULL THEN "unknown" ELSE "architectural"

\* limit: the default of the route, and a limit of one image
VisionLimits == {1, 10}

\* ... ORDER BY c.document_id ASC, c.page_number ASC LIMIT ?
RECURSIVE ByDocumentAndPage(_)
ByDocumentAndPage(rows) ==
    IF rows = {} THEN <<>>
    ELSE LET first == CHOOSE x \in rows : \A y \in rows :
                         \/ x.document_id < y.document_id
                         \/ /\ x.document_id = y.document_id
                            /\ x.page_number <= y.page_number
         IN  <<first>> \o ByDocumentAndPage(rows \ {first})

VisionChunks(projectId, limit, skipTextHeavy) ==
    LET rows == {c \in chunks :
                    \E d \in documents :
                        /\ d.id = c.document_id
                        /\ d.project_id = projectId
                        /\ skipTextHeavy => d.type = "drawing"}
        ordered == ByDocumentAndPage(rows)
    IN  SubSeq(ordered, 1, Min(limit, Len(ordered)))

\* SELECT id FROM visual_findings WHERE document_id = ? AND page_number = ?
existing(findings, chunk) ==
    {f \in findings : /\ f.document_id = chunk.document_id
                      /\ f.page_number = chunk.page_number}

Skipped(findings, chunk) ==
    existing(findings, chunk) # {} \/ ~existsSync(chunk.image_path)

\* The turns of the loop from chunk i on that end in continue: the index of
\* the first chunk that is sent to analyzeImage, and the results pushed.
RECURSIVE NextToAnalyze(_, _, _)
NextToAnalyze(selected, i, findings) ==
    IF i > Len(selected) \/ ~Skipped(findings, selected[i]) THEN i
    ELSE NextToAnalyze(selected, i + 1, findings)

SkipResults(selected, from, to, findings) ==
    [n \in 1..(to - from) |->
        [id |-> selected[from + n - 1].id,
         outcome |-> IF existing(findings, selected[from + n - 1]) # {}
                     THEN "already_analyzed" ELSE "image_not_found"]]

\* A run of analyzeProjectVision that has not started.
IdleVision ==
    [pc |-> "idle", projectId |-> 0, selected |-> <<>>, i |-> 0,
     results |-> <<>>, processed |-> 0]

\* The loop from chunk i on, up to its next await or the return.
Looping(run, i, findings) ==
    LET next == NextToAnalyze(run.selected, i, findings)
    IN  [run EXCEPT
            !.pc = IF next > Len(run.selected) THEN "returned" ELSE "analyzing",
            !.i = next,
            !.results = run.results
                          \o SkipResults(run.selected, i, next, findings)]

\* analyzeProjectVision(projectId, { limit, skipTextHeavy }) up to its first
\* await analyzeImage(...).
StartVision(r) ==
    \E projectId \in Projects, limit \in VisionLimits, skipTextHeavy \in BOOLEAN :
        /\ req[r].pc = "idle"
        /\ \A o \in Requests : o < r => req[o].pc # "idle"
        /\ req' = [req EXCEPT ![r] =
              Looping([IdleVision EXCEPT
                          !.projectId = projectId,
                          !.selected = VisionChunks(projectId, limit,
                                                    skipTextHeavy)],
                      1, visual_findings)]
        /\ UNCHANGED <<storeVars, call, genVars, projects, chats, messages,
                       chat_openai, faults>>

\* await analyzeImage settles: a failure is raised out of the run; otherwise
\* saveVisualFinding up to its await: the INSERT.
Analyzed(r) ==
    \E ok \in BOOLEAN :
        /\ req[r].pc = "analyzing"
        /\ Charge(~ok)
        /\ LET chunk == req[r].selected[req[r].i]
           IN  IF ok
               THEN /\ visual_findings' = visual_findings \cup
                         {[id |-> NextId(visual_findings),
                           document_id |-> chunk.document_id,
                           page_number |-> chunk.page_number,
                           sheet_number |-> chunk.sheet_number,
                           sheet_type |-> classifySheetType(chunk.sheet_number),
                           embedding |-> NoEmbedding]}
                    /\ req' = [req EXCEPT ![r] =
                                  [req[r] EXCEPT !.pc = "embedding"]]
               ELSE /\ visual_findings' = visual_findings
                    /\ req' = [req EXCEPT ![r] = [req[r] EXCEPT !.pc = "raised"]]
        /\ UNCHANGED <<documents, chunks, callouts, call, genVars, projects,
                       chats, messages, chat_openai>>

\* saveVisualFinding: await openai.embeddings.create settles; the UPDATE by
\* document, page and sheet number (a NULL sheet number matches no row); a
\* failure is caught. Then the loop goes on.
Embedded(r) ==
    \E ok \in BOOLEAN :
        /\ req[r].pc = "embedding"
        /\ Charge(~ok)
        /\ LET chunk == req[r].selected[req[r].i]
               updated ==
                   IF ok
                   THEN {IF /\ f.document_id = chunk.document_id
                            /\ f.page_number = chunk.page_number
                            /\ chunk.sheet_number # NULL
                            /\ f.sheet_number = chunk.sheet_number
                         THEN [f EXCEPT !.embedding = Cycle(Vectors, chunk.id)]
                         ELSE f : f \in visual_findings}
                   ELSE visual_findings
           IN  /\ visual_findings' = updated
               /\ req' = [req EXCEPT ![r] =
                     Looping([req[r] EXCEPT
                                 !.processed = req[r].processed + 1,
                                 !.results = Append(req[r].results,
                                                [id |-> chunk.id,
                                                 outcome |-> "analyzed"])],
                             req[r].i + 1, updated)]
        /\ UNCHANGED <<documents, chunks, callouts, call, genVars, projects,
                       chats, messages, chat_openai>>

\* The route answers: res.json with the results, or status 500.
ReturnVision(r) ==
    /\ req[r].pc \in {"returned", "raised"}
    /\ req' = [req EXCEPT ![r] = [IdleVision EXCEPT !.pc = "done"]]
    /\ UNCHANGED <<storeVars, call, genVars, projects, chats, messages,
                   chat_openai, faults>>

InitVision ==
    /\ documents = TypedDocuments
    /\ chunks = {ImageChunk(k) : k \in 1..MaxChunks}
    /\ visual_findings = {}
    /\ callouts = {}
    /\ call = NoCall
    /\ InitGenIdle
    /\ projects = ProjectRows
    /\ chats = ChatRows
    /\ messages = <<>>
    /\ chat_openai = TRUE
    /\ req = [r \in Requests |-> IdleVision]
    /\ faults = 0

NextVision ==
    \E r \in Requests :
        StartVision(r) \/ Analyzed(r) \/ Embedded(r) \/ ReturnVision(r)

vars == <<documents, chunks, visual_findings, callouts, call, genVars, chatVars>>

SpecSearch == InitSearch /\ [][NextSearch]_vars

SpecEmbed == InitEmbed /\ [][NextEmbed]_vars

SpecChat == InitChat /\ [][NextChat]_vars

SpecCite == InitCite /\ [][NextCite]_vars

SpecProcess == InitProcess /\ [][NextProcess]_vars

SpecVision == InitVision /\ [][NextVision]_vars

SpecRoute == InitChat /\ [][NextRoute]_vars

SpecMerge == InitMerge /\ [][NextMerge]_vars

SpecFindings == InitFindings /\ [][NextFindings]_vars

---------------------------------------------------------------------------
(* Claims on SpecSearch *)

InProject(documentId, projectId) ==
    \E d \in documents : d.id = documentId /\ d.project_id = projectId

\* C1: every chunk and visual finding searchForAI(projectId, ...) returns,
\* callout expansion included, is a row of a document of projectId, and every
\* page/filename resolveSheetNumbers(citations, projectId) fills in is the
\* page and file of a chunk of a document of projectId.
C1_ProjectScoped ==
    /\ call.op = "searchForAI" =>
          /\ \A i \in 1..Len(call.ret.chunks) :
                /\ InProject(call.ret.chunks[i].document_id, call.projectId)
                /\ \E c \in chunks :
                      /\ c.id = call.ret.chunks[i].id
                      /\ c.document_id = call.ret.chunks[i].document_id
          /\ \A i \in 1..Len(call.ret.visualFindings) :
                /\ InProject(call.ret.visualFindings[i].document_id,
                             call.projectId)
                /\ \E f \in visual_findings :
                      /\ f.id = call.ret.visualFindings[i].id
                      /\ f.document_id = call.ret.visualFindings[i].document_id
    /\ call.op = "searchRelevantContent" =>
          \A i \in 1..Len(call.ret) :
              InProject(call.ret[i].document_id, call.projectId)
    /\ call.op = "resolveSheetNumbers" =>
          \A i \in 1..Len(call.ret) :
              call.ret[i] # call.citations[i] =>
                  \E c \in chunks, d \in documents :
                      /\ d.id = c.document_id
                      /\ d.project_id = call.projectId
                      /\ c.page_number = call.ret[i].page
                      /\ d.filename = call.ret[i].filename

\* C1 witness: a search whose result holds a chunk added by callout expansion
\* while a chunk of another project lies on the same sheet.
C1_Witness ==
    /\ call.op = "searchForAI"
    /\ \E i \in 1..Len(call.ret.chunks) :
          /\ "similarity" \notin DOMAIN call.ret.chunks[i]
          /\ \E x \in chunks :
                /\ ~InProject(x.document_id, call.projectId)
                /\ x.sheet_number = call.ret.chunks[i].sheet_number

EmbeddedInProject(rows, projectId) ==
    {x \in rows : InProject(x.document_id, projectId) /\ x.embedding # NoEmbedding}

\* C2: searchRelevantContent(projectId, query, topK) returns exactly
\* min(topK, n) items, n the number of embedded chunks and visual findings of
\* the project, in non-increasing similarity order, omitting no item more
\* similar than a returned one, each tagged with the table it came from.
C2_TopK ==
    call.op = "searchRelevantContent" =>
        LET cs == EmbeddedInProject(chunks, call.projectId)
            fs == EmbeddedInProject(visual_findings, call.projectId)
            r == call.ret
            returned(kind, x) ==
                \E i \in 1..Len(r) : r[i].source_type = kind /\ r[i].id = x.id
        IN  /\ Len(r) = Min(call.topK, Cardinality(cs) + Cardinality(fs))
            /\ \A i, j \in 1..Len(r) :
                  i < j => r[i].similarity >= r[j].similarity
            /\ \A i, j \in 1..Len(r) :
                  i # j => <<r[i].source_type, r[i].id>> # <<r[j].source_type, r[j].id>>
            /\ \A i \in 1..Len(r) :
                  /\ r[i].similarity = cosineSimilarity(call.query, r[i].embedding)
                  /\ r[i].source_type \in {"chunk", "visual_finding"}
                  /\ r[i].source_type = "chunk" =>
                        \E c \in cs : c.id = r[i].id /\ c.embedding = r[i].embedding
                  /\ r[i].source_type = "visual_finding" =>
                        \E f \in fs : f.id = r[i].id /\ f.embedding = r[i].embedding
            /\ \A x \in cs : ~returned("chunk", x) =>
                  \A i \in 1..Len(r) :
                      cosineSimilarity(call.query, x.embedding) <= r[i].similarity
            /\ \A x \in fs : ~returned("visual_finding", x) =>
                  \A i \in 1..Len(r) :
                      cosineSimilarity(call.query, x.embedding) <= r[i].similarity

\* C2 witness: a search that had to omit items and returned rows of both
\* tables with different similarities.
C2_Witness ==
    /\ call.op = "searchRelevantContent"
    /\ Len(call.ret) = call.topK
    /\ Cardinality(EmbeddedInProject(chunks, call.projectId))
         + Cardinality(EmbeddedInProject(visual_findings, call.projectId))
         > call.topK
    /\ \E i, j \in 1..Len(call.ret) :
          /\ call.ret[i].source_type = "chunk"
          /\ call.ret[j].source_type = "visual_finding"
          /\ call.ret[i].similarity # call.ret[j].similarity

\* The project holds a chunk at that page of a document with that filename,
\* on the sheet given (any sheet when sheet is NULL).
HoldsChunk(projectId, filename, page, sheet) ==
    \E c \in chunks, d \in documents :
        /\ d.id = c.document_id
        /\ d.project_id = projectId
        /\ d.filename = filename
        /\ c.page_number = page
        /\ sheet # NULL => c.sheet_number = sheet

HoldsSheetOfFile(projectId, filename, sheet) ==
    \E page \in 1..MaxChunks : HoldsChunk(projectId, filename, page, sheet)

Resolving == call.op = "resolveSheetNumbers"

\* Citation i of the call went in with a sheet and without a page.
ToResolve(i) ==
    /\ call.citations[i].page = NoPage
    /\ call.citations[i].sheet # NULL

PageFilled(i) == ToResolve(i) /\ call.ret[i].page # NoPage

Candidates(citation, projectId, bySheet) ==
    {row \in [page_number : 1..MaxChunks, filename : {citation.source}] :
        HoldsChunk(projectId, citation.source, row.page_number,
                   IF bySheet THEN citation.sheet ELSE NULL)}

FilledWith(i, rows) ==
    \E row \in rows :
        call.ret[i] = [call.citations[i] EXCEPT !.page = row.page_number,
                                               !.filename = row.filename]

C17_Frame ==
    Resolving =>
        /\ Len(call.ret) = Len(call.citations)
        /\ \A i \in 1..Len(call.citations) :
              LET in == call.citations[i]
                  out == call.ret[i]
              IN  /\ out.source = in.source
                  /\ out.sheet = in.sheet
                  /\ out.detail = in.detail
                  /\ out.fullText = in.fullText
                  /\ in.page # NoPage => out = in
                  /\ out.page # in.page => in.page = NoPage

\* C17 witness: a list of a citation that has a page, returned as it was,
\* and one whose page was filled.
C17_Witness ==
    /\ Resolving
    /\ Len(call.citations) = 2
    /\ call.citations[1].page # NoPage
    /\ call.ret[1] = call.citations[1]
    /\ PageFilled(2)

\* C24: expandChunksWithCallouts(chunks, projectId, maxAdditional) returns the
\* given chunks in their order, followed by the project's chunks on the related
\* sheets that are not among the given ones, in ascending page order, up to
\* maxAdditional of them: with k such chunks it adds min(k, maxAdditional); no
\* chunk id occurs twice in the result.
C24_AddsUpToMaxAdditional ==
    call.op = "expandChunksWithCallouts" =>
        LET given == call.citations
            ids == {c.id : c \in Range(given)}
            related == collectRelatedSheetsFromCallouts(call.projectId, given)
            notGiven == SelectSeq(
                            RowsByPage(ChunksOnSheets(call.projectId, related)),
                            LAMBDA c : c.id \notin ids)
        IN  /\ call.ret = given \o Slice(notGiven, 0, call.topK)
            /\ Len(call.ret) = Len(given) + Min(Len(notGiven), call.topK)
            /\ \A i, j \in 1..Len(call.ret) :
                   call.ret[i].id = call.ret[j].id => i = j

---------------------------------------------------------------------------
(* Claims on SpecEmbed *)

IsCall(e, kind) == e.ev = "call" /\ e.kind = kind

Ended(status) == gen_pc = status

EmbeddingOf(id) == (CHOOSE c \in chunks : c.id = id).embedding

SecondRun ==
    /\ gen_pc # "idle"
    /\ gen_follows.status = "returned"
    /\ gen_follows.project = gen_project
    /\ ~gen_follows.inserted

SelectsNothing ==
    /\ gen_selected = <<>>
    /\ gen_log = <<>>
    /\ gen_processed = 0
    /\ gen_pc = "returned"
    /\ gen_result = [chunksProcessed |-> 0]

\* C3 as stated: a run of generateEmbeddings that follows a completed run on
\* the same project, no chunk inserted in between, selects no chunk, calls
\* the provider never and updates no row.
C3_SecondRunIdle == SecondRun => SelectsNothing

\* C3 amended: a run that follows a run on the same project which returned
\* with chunksProcessed equal to the number of chunks it had selected, no
\* chunk inserted since that selection, selects no chunk, calls the provider
\* never and updates no row.
C3_SecondRunIdleAfterFullRun ==
    (SecondRun /\ gen_follows.all) => SelectsNothing

\* C3 witness: a second run on a project whose first run embedded all of its
\* three or more chunks.
C3_Witness ==
    /\ SecondRun
    /\ gen_follows.all
    /\ Cardinality({c \in chunks : InProject(c.document_id, gen_project)
                                    /\ c.embedding # NoEmbedding}) >= 3
    /\ SelectsNothing

BatchIds(b) == Slice(gen_selected, b, b + batchSize)

WholeSends(b) ==
    Cardinality({n \in 1..Len(gen_log) :
        /\ gen_log[n].ev = "call"
        /\ gen_log[n].i = b
        /\ gen_log[n].ids = BatchIds(b)})

\* C4: a batch answered with status 429 is sent again exactly once, after the
\* wait; if that second call fails, whatever the error, the error is raised
\* and nothing more is sent; no batch is sent as a whole more than twice.
C4_RetryOnce ==
    /\ \A n \in 1..Len(gen_log) :
          (IsCall(gen_log[n], "batch") /\ gen_log[n].status = 429) =>
              /\ Len(gen_log) >= n + 1
              /\ gen_log[n + 1].ev = "sleep"
              /\ gen_log[n + 1].ms = RateLimitWaitMs
              /\ IF Len(gen_log) = n + 1 THEN gen_pc = "wait"
                 ELSE /\ IsCall(gen_log[n + 2], "retry")
                      /\ gen_log[n + 2].ids = gen_log[n].ids
                      /\ gen_log[n + 2].i = gen_log[n].i
                      /\ WholeSends(gen_log[n].i) = 2
                      /\ \A m \in (n + 3)..Len(gen_log) :
                            gen_log[m].i # gen_log[n].i
                      /\ gen_log[n + 2].status # 200 =>
                            /\ Len(gen_log) = n + 2
                            /\ Ended("raised")
                            /\ gen_error.status = gen_log[n + 2].status
                            /\ gen_error.code = gen_log[n + 2].code
    /\ \A n \in 1..Len(gen_log) : WholeSends(gen_log[n].i) <= 2

\* C4 witness: a retry that failed with an error other than 429 while a later
\* batch was still to come.
C4_Witness ==
    /\ gen_pc = "raised"
    /\ Len(gen_log) >= 3
    /\ IsCall(gen_log[Len(gen_log)], "retry")
    /\ gen_log[Len(gen_log)].code = "maximum context length"
    /\ gen_i + batchSize < Len(gen_selected)

ItemCalls(b) ==
    SelectSeq(gen_log, LAMBDA e : IsCall(e, "item") /\ e.i = b)

\* C5: after a context-length error on a batch, each item of the batch is sent
\* on its own, in order; an item whose call fails stays NULL and does not
\* abort the pass, every other item has its embedding written, and the pass
\* goes on with the following batch.
C5_PerItemFallback ==
    \A n \in 1..Len(gen_log) :
        (IsCall(gen_log[n], "batch") /\ gen_log[n].code = "maximum context length") =>
            LET b == gen_log[n].i
                ids == gen_log[n].ids
                items == ItemCalls(b)
            IN  /\ Len(items) <= Len(ids)
                /\ \A k \in 1..Len(items) :
                      /\ items[k].ids = <<ids[k]>>
                      /\ items[k].status = 200 => EmbeddingOf(ids[k]) # NoEmbedding
                      /\ items[k].status # 200 => EmbeddingOf(ids[k]) = NoEmbedding
                /\ Len(items) < Len(ids) => gen_pc = "item" /\ gen_i = b
                /\ Len(items) = Len(ids) =>
                      IF b + batchSize < Len(gen_selected)
                      THEN \/ gen_pc = "batch" /\ gen_i = b + batchSize
                           \/ \E m \in (n + 1)..Len(gen_log) :
                                 /\ IsCall(gen_log[m], "batch")
                                 /\ gen_log[m].i = b + batchSize
                      ELSE Ended("returned")

\* C5 witness: a pass that returned after a fallback in which one item failed
\* and the other was embedded, and that sent a later batch.
C5_Witness ==
    /\ gen_pc = "returned"
    /\ \E n \in 1..Len(gen_log) :
          /\ IsCall(gen_log[n], "batch")
          /\ gen_log[n].code = "maximum context length"
          /\ \E k, l \in 1..Len(ItemCalls(gen_log[n].i)) :
                /\ ItemCalls(gen_log[n].i)[k].status = 200
                /\ ItemCalls(gen_log[n].i)[l].status # 200
          /\ \E m \in (n + 1)..Len(gen_log) :
                IsCall(gen_log[m], "batch") /\ gen_log[m].i > gen_log[n].i

OtherFailure(e) ==
    e.ev = "call" /\ e.code \in {"invalid_request", "server_error"}

C6_Raised ==
    \A n \in 1..Len(gen_log) :
        (IsCall(gen_log[n], "batch") /\ OtherFailure(gen_log[n])) =>
            /\ n = Len(gen_log)
            /\ Ended("raised")
            /\ gen_error.status = gen_log[n].status
            /\ gen_error.code = gen_log[n].code
            /\ \A m \in 1..(n - 1) :
                  (gen_log[m].ev = "call" /\ gen_log[m].status = 200) =>
                      \A k \in 1..Len(gen_log[m].ids) :
                          EmbeddingOf(gen_log[m].ids[k]) # NoEmbedding

C6_Step ==
    /\ \A c \in chunks : c.embedding # NoEmbedding =>
          \E c2 \in chunks' : c2.id = c.id /\ c2.embedding # NoEmbedding
    /\ (gen_pc = "idle" /\ gen_pc' # "idle") =>
          \A k \in Range(gen_selected') :
              \E c \in chunks :
                  /\ c.id = k
                  /\ c.embedding = NoEmbedding
                  /\ InProject(c.document_id, gen_project')

\* C6: a batch failing with an error that is neither a rate limit nor a
\* context-length error makes the pass raise that error with nothing sent
\* after it; what earlier batches wrote stays written, no row ever goes from
\* embedded back to NULL, and a run selects only rows that are still NULL.
C6_AbortKeepsEmbeddings == []C6_Raised /\ [][C6_Step]_vars

\* C6 witness: a pass that raised on its second batch after the first batch
\* had been embedded.
C6_Witness ==
    /\ gen_pc = "raised"
    /\ Len(gen_log) >= 2
    /\ IsCall(gen_log[1], "batch") /\ gen_log[1].status = 200
    /\ IsCall(gen_log[Len(gen_log)], "batch")
    /\ OtherFailure(gen_log[Len(gen_log)])
    /\ \A k \in 1..Len(gen_log[1].ids) :
          EmbeddingOf(gen_log[1].ids[k]) # NoEmbedding

QuotaSignalled ==
    \E n \in 1..Len(gen_log) : gen_log[n].code = "insufficient_quota"

\* C7: when the provider signals quota exhaustion during a pass, the pass
\* does not raise: it returns a result that marks the pause, and the route
\* reports a paused outcome.
C7_QuotaPauses ==
    /\ QuotaSignalled =>
          /\ gen_pc # "raised"
          /\ gen_pc = "returned" => PausedForQuota(gen_result)
    /\ (gen_pc = "idle" /\ gen_prev.quota) =>
          gen_prev.status = "returned" /\ route_outcome = "paused"

\* C26: in one pass of generateEmbeddings the inter-batch delay elapses
\* between the provider calls of a batch and the first provider call of the
\* next batch, whichever way the earlier batch ended: success at the first
\* try, success after a rate-limit retry, or the per-item fallback.
C26_DelayBetweenBatches ==
    \A n, m \in 1..Len(gen_log) :
        (/\ n < m
         /\ gen_log[n].ev = "call"
         /\ IsCall(gen_log[m], "batch")
         /\ gen_log[n].i < gen_log[m].i) =>
            \E k \in (n + 1)..(m - 1) :
                /\ gen_log[k].ev = "sleep"
                /\ gen_log[k].ms = InterBatchDelayMs

---------------------------------------------------------------------------
(* Claims on SpecChat *)

\* The positions of the rows of table messages stored by call r.
StoredBy(r) == {n \in 1..Len(messages) : messages[n].call = r}

C8_Returned ==
    \A r \in Requests :
        req[r].pc = "returned" =>
            /\ Cardinality(StoredBy(r)) = 2
            /\ \E u, a \in StoredBy(r) :
                  /\ u < a
                  /\ messages[u].role = "user"
                  /\ messages[u].chat_id = req[r].chatId
                  /\ messages[u].content = req[r].userMessage
                  /\ messages[a].role = "assistant"
                  /\ messages[a].chat_id = req[r].chatId
                  /\ messages[a].content = req[r].ret.content

C8_Step ==
    /\ Len(messages') >= Len(messages)
    /\ SubSeq(messages', 1, Len(messages)) = messages
    /\ \A r \in Requests :
          req[r].pc \in {"returned", "raised", "done"} =>
              \A n \in 1..Len(messages') : messages'[n].call = r => n <= Len(messages)

\* C8: a call of sendMessage that returns normally has stored exactly two
\* messages in its chat, the user message and after it the assistant message
\* whose content is the content returned; no step of sendMessage changes or
\* removes a stored message, and a call that has ended stores nothing more.
C8_TwoMessagesAppended == []C8_Returned /\ [][C8_Step]_vars

\* C8 witness: a call returned a generated answer while the other call's user
\* message lies between its two messages.
C8_Witness ==
    \E r \in Requests :
        /\ req[r].pc = "returned"
        /\ req[r].ret.content = CitedAnswer
        /\ \E u, a \in StoredBy(r), o \in 1..Len(messages) :
              /\ u < o /\ o < a
              /\ messages[o].call # r
              /\ messages[o].chat_id = req[r].chatId

AnswerPurposes == {"answer", "subanswer", "synthesis"}

\* C9: when a completion call that produces the answer (the direct answer, a
\* sub-answer or the synthesis) fails, sendMessage raises that failure, makes
\* no further provider call, stores no assistant message for the question,
\* and no answer call, failed or not, is made with a model other than the
\* selected one.
C9_AnswerFailureRaised ==
    \A r \in Requests :
        \A n \in 1..Len(req[r].log) :
            req[r].log[n].purpose \in AnswerPurposes =>
                /\ req[r].log[n].model = req[r].selectedModel
                /\ ~req[r].log[n].ok =>
                      /\ n = Len(req[r].log)
                      /\ req[r].pc = "raised"
                      /\ req[r].error = "completion failed"
                      /\ \A m \in StoredBy(r) : messages[m].role = "user"

\* C9 witness: the answer to the second sub-question failed, after helper
\* calls made with another model than the selected one.
C9_Witness ==
    \E r \in Requests :
        /\ req[r].pc = "raised"
        /\ req[r].selectedModel = "claude-sonnet-4"
        /\ Len(req[r].log) >= 2
        /\ req[r].log[Len(req[r].log)] =
              LogEntry("subanswer", "claude-sonnet-4", FALSE)
        /\ \E n \in 1..Len(req[r].log) :
              req[r].log[n] = LogEntry("subanswer", "claude-sonnet-4", TRUE)
        /\ \E n \in 1..Len(req[r].log) : req[r].log[n].model = HelperModel
        /\ Cardinality(StoredBy(r)) = 1

\* The chat, or the project of the chat, is missing from the store.
NotFound(chatId) ==
    \/ \A c \in chats : c.id # chatId
    \/ \E c \in chats : c.id = chatId /\ \A p \in projects : p.id # c.project_id

C10_Raised ==
    \A r \in Requests :
        (req[r].pc \notin {"idle", "done"} /\ NotFound(req[r].chatId)) =>
            /\ req[r].pc = "raised"
            /\ req[r].error \in {"Chat not found", "Project not found",
                                 "OpenAI not initialized"}
            /\ StoredBy(r) = {}

C10_Step ==
    \A r \in Requests :
        (req[r].pc = "idle" /\ req'[r].pc # "idle" /\ NotFound(req'[r].chatId)) =>
            messages' = messages

\* C10: sendMessage called with the id of no chat, or of a chat whose project
\* does not exist, raises an error and leaves table messages as it was.
C10_NotFoundStoresNothing == []C10_Raised /\ [][C10_Step]_vars

\* C10 witness: a call on a chat whose project is missing raised "Project not
\* found" while the table held messages of an earlier call.
C10_Witness ==
    \E r \in Requests :
        /\ req[r].pc = "raised"
        /\ req[r].error = "Project not found"
        /\ Len(messages) > 0

\* The number of messages the chat of call r held before r's user message.
HeldBefore(r) ==
    Cardinality({n \in 1..Len(messages) :
                    /\ messages[n].chat_id = req[r].chatId
                    /\ \A u \in StoredBy(r) : n < u})

TitleCalls(r) ==
    Cardinality({n \in 1..Len(req[r].log) : req[r].log[n].purpose = "title"})

\* C11: a call of sendMessage that returns a generated answer has made one
\* title-generation call when the chat held no message before the call, and
\* none when the chat already held messages.
C11_TitleOnFirstExchangeOnly ==
    \A r \in Requests :
        (req[r].pc = "returned" /\ req[r].ret.content # noDocsMessage) =>
            TitleCalls(r) = IF HeldBefore(r) = 0 THEN 1 ELSE 0

FailedTitle(r) ==
    \E n \in 1..Len(req[r].log) :
        req[r].log[n] = LogEntry("title", HelperModel, FALSE)

C12_Returned ==
    \A r \in Requests :
        FailedTitle(r) =>
            /\ req[r].pc = "returned"
            /\ req[r].error = "none"
            /\ req[r].ret.role = "assistant"
            /\ \E a \in StoredBy(r) :
                  /\ messages[a].role = "assistant"
                  /\ messages[a].content = req[r].ret.content
                  /\ messages[a].citations = Stringified(req[r].ret.citations)

C12_Step ==
    \A r \in Requests :
        (req[r].pc = "title" /\ req'[r].pc # "title"
           /\ ~req'[r].log[Len(req'[r].log)].ok) =>
            /\ chats' = chats
            /\ messages' = messages
            /\ req'[r].ret = req[r].ret

\* C12: a failed title-generation call is not raised: sendMessage returns the
\* answer and citations it had, the assistant message stored before the
\* title call stays stored, and the title of the chat is left as it was.
C12_TitleFailureSwallowed == []C12_Returned /\ [][C12_Step]_vars

\* C12 witness: a call returned a generated answer after its title call
\* failed, the chat still carrying its first title.
C12_Witness ==
    \E r \in Requests :
        /\ FailedTitle(r)
        /\ req[r].pc = "returned"
        /\ req[r].ret.content = CitedAnswer
        /\ ChatOf(req[r].chatId).title = <<"New Chat">>

\* The expansion gave no alternative phrasing: every search query is the
\* question itself.
NoAlternative(r) ==
    /\ Len(req[r].searchQueries) > 0
    /\ \A n \in 1..Len(req[r].searchQueries) :
          req[r].searchQueries[n] = req[r].userMessage

\* C13: when the expansion response is not JSON or is an empty array,
\* generateResponse retrieves with a single query, the original question.
C13_SingleQueryOnFallback ==
    \A r \in Requests : NoAlternative(r) => Len(req[r].searchQueries) = 1

\* The kind of the k-th call of answerWithDecomposition for n sub-questions.
ExpectedKind(k, n) ==
    IF k > 2 * n THEN "synthesis" ELSE IF k % 2 = 1 THEN "search" ELSE "answer"

\* The first m sub-questions with the answers the calls c returned for them.
AnsweredBefore(qs, c, m) ==
    [i \in 1..m |-> [question |-> qs[i], answer |-> c[2 * i].content]]

\* C14: on the decomposed path with n sub-questions the calls are, in order,
\* a retrieval and an answer for each sub-question in the order given, then
\* one synthesis; a call is made only after the call before it returned; the
\* context of the answer to sub-question i holds the answers to sub-questions
\* 1..i-1, and the synthesis holds all n; a call that returns an answer
\* through this path has made exactly n retrievals and one synthesis.
C14_SequentialDecomposition ==
    \A r \in Requests :
        LET qs == req[r].subQuestions
            n == Len(qs)
            c == req[r].subCalls
        IN  /\ n = 0 => c = <<>>
            /\ Len(c) <= 2 * n + 1
            /\ \A k \in 1..Len(c) :
                  /\ c[k].kind = ExpectedKind(k, n)
                  /\ k > 1 => c[k - 1].ok
                  /\ c[k].kind = "search" => c[k].query = qs[(k + 1) \div 2]
                  /\ c[k].kind = "answer" =>
                        /\ c[k].query = qs[k \div 2]
                        /\ c[k].context = AnsweredBefore(qs, c, (k \div 2) - 1)
                  /\ c[k].kind = "synthesis" =>
                        c[k].context = AnsweredBefore(qs, c, n)
            /\ (req[r].pc \in {"title", "returned"} /\ n > 0) =>
                  /\ Len(c) = 2 * n + 1
                  /\ Cardinality({k \in 1..Len(c) : c[k].kind = "search"}) = n
                  /\ Cardinality({k \in 1..Len(c) : c[k].kind = "synthesis"}) = 1

\* C14 witness: a call returned the synthesis of three sub-answers, the third
\* answered with the first two in its context.
C14_Witness ==
    \E r \in Requests :
        /\ req[r].pc = "returned"
        /\ req[r].subQuestions = SubQuestionList
        /\ Len(req[r].subCalls) = 7
        /\ Len(req[r].subCalls[6].context) = 2
        /\ req[r].subCalls[6].context[1].answer # req[r].subCalls[6].context[2].answer

NothingEmbedded(projectId) ==
    /\ EmbeddedInProject(chunks, projectId) = {}
    /\ EmbeddedInProject(visual_findings, projectId) = {}

\* C22: a call of sendMessage on a chat of a project without an embedded chunk
\* or visual finding, once its search has returned, returns the canned answer
\* with citations [], having stored it as an assistant message after the user
\* message; it makes no completion call.
C22_NoDocuments ==
    \A r \in Requests :
        (req[r].pc \notin {"idle", "search", "done"}
           /\ req[r].project_id \in Projects
           /\ NothingEmbedded(req[r].project_id)) =>
            IF req[r].pc = "raised"
            THEN req[r].log = <<LogEntry("search", "text-embedding-3-small", FALSE)>>
            ELSE /\ req[r].pc = "returned"
                 /\ req[r].ret = [role |-> "assistant", content |-> noDocsMessage,
                                  citations |-> <<>>]
                 /\ req[r].log = <<LogEntry("search", "text-embedding-3-small", TRUE)>>
                 /\ \E u, a \in StoredBy(r) :
                       /\ u < a
                       /\ messages[u].role = "user"
                       /\ messages[u].content = req[r].userMessage
                       /\ messages[a].role = "assistant"
                       /\ messages[a].chat_id = req[r].chatId
                       /\ messages[a].content = noDocsMessage
                       /\ messages[a].citations = NullCitations

\* C22 witness: a call on a chat of a project that holds chunks, none of them
\* embedded, returned the canned answer.
C22_Witness ==
    \E r \in Requests :
        /\ req[r].pc = "returned"
        /\ NothingEmbedded(req[r].project_id)
        /\ \E c \in chunks : InProject(c.document_id, req[r].project_id)
        /\ req[r].ret.content = noDocsMessage

\* The path generateResponse answers a question through, once it has chosen.
Purposes(r) == {req[r].log[n].purpose : n \in 1..Len(req[r].log)}

OnDecomposedPath(r) ==
    \/ req[r].pc \in {"subsearch", "subanswer", "synthesis"}
    \/ Purposes(r) \cap {"subanswer", "synthesis"} # {}
    \/ req[r].subCalls # <<>>

OnDirectPath(r) == req[r].pc = "answer" \/ "answer" \in Purposes(r)

\* A failed or unparsable decomposition does not make the call raise.
DecompositionNeverRaises(r) ==
    (/\ Len(req[r].log) > 0
     /\ req[r].log[Len(req[r].log)].purpose = "decompose") =>
        req[r].pc # "raised"

\* C28 as stated: generateResponse answers through the decomposed path exactly
\* when isComplexQuery flags the question and decomposeQuery returns a list of
\* sub-questions (decomposition is always enabled by sendMessage); otherwise
\* it takes the direct path, and no error reaches the caller.
C28_DecomposedOnAnyList ==
    \A r \in Requests :
        /\ (OnDecomposedPath(r) \/ OnDirectPath(r)) =>
              /\ OnDecomposedPath(r) =
                    (req[r].isComplex /\ Len(req[r].decomposed) > 0)
              /\ OnDirectPath(r) = ~OnDecomposedPath(r)
        /\ DecompositionNeverRaises(r)

\* C28, amended: generateResponse answers through the decomposed path exactly
\* when isComplexQuery flags the question and decomposeQuery returns a list of
\* at least two sub-questions; when the decomposition response cannot be
\* parsed, reports the question simple, or lists fewer than two
\* sub-questions, it takes the direct path, and no error reaches the caller.
C28_DecomposedOnTwoOrMore ==
    \A r \in Requests :
        /\ (OnDecomposedPath(r) \/ OnDirectPath(r)) =>
              /\ OnDecomposedPath(r) =
                    (req[r].isComplex /\ Len(req[r].decomposed) > 1)
              /\ OnDirectPath(r) = ~OnDecomposedPath(r)
        /\ DecompositionNeverRaises(r)

\* A complex question whose decomposition listed one sub-question, answered
\* through the direct path.
C28_Witness ==
    \E r \in Requests :
        /\ req[r].pc \in {"title", "returned"}
        /\ req[r].isComplex
        /\ Len(req[r].decomposed) = 1
        /\ "answer" \in Purposes(r)
        /\ req[r].subCalls = <<>>
        /\ req[r].ret.content # <<>>

\* Call r has read the history it hands to generateResponse.
HistoryRead(r) ==
    \/ req[r].pc \in {"expand", "retrieve", "decompose", "answer", "subsearch",
                      "subanswer", "synthesis", "title"}
    \/ req[r].pc = "returned" /\ req[r].ret.content # noDocsMessage

\* The messages the chat of call r held before r stored its user message.
StoredBefore(r) ==
    LET u == CHOOSE n \in StoredBy(r) : messages[n].role = "user"
    IN  SelectSeq(SubSeq(messages, 1, u - 1),
                  LAMBDA m : m.chat_id = req[r].chatId)

\* C30: the history handed to the answer generator for a question holds
\* exactly the messages stored in the chat before that question's user
\* message: never the question itself, and never a message another request
\* stored after it, also when two calls of sendMessage on one chat overlap.
C30_HistoryBeforeQuestion ==
    \A r \in Requests :
        HistoryRead(r) =>
            /\ req[r].history = StoredBefore(r)
            /\ \A n \in 1..Len(req[r].history) : req[r].history[n].call # r

---------------------------------------------------------------------------
(* Claims on SpecCite *)

Extracting == call.op = "extractCitations"

\* C18: every citation extractCitations returns has a sheet or a page, for
\* any text and any letter case.
C18_SheetOrPage ==
    Extracting =>
        \A i \in 1..Len(call.ret) :
            call.ret[i].sheet # NULL \/ call.ret[i].page # NoPage

\* The matches of the patterns in the text, and how many of them, or of the
\* citations returned, carry a given text.
Matches == SelectSeq(call.query, LAMBDA x : x.kind # "text")

MatchesOf(t) == Cardinality({n \in 1..Len(Matches) : Matches[n].fullText = t})

CitationsOf(t) ==
    Cardinality({i \in 1..Len(call.ret) : call.ret[i].fullText = t})

\* The page matches whose text is the fullText of a citation of the sheet
\* pass or the detail pass.
CapturedBefore ==
    SelectSeq(Matches,
              LAMBDA x : /\ x.kind = "page"
                         /\ \E n \in 1..Len(Matches) :
                               /\ Matches[n].kind \in {"sheet", "detail"}
                               /\ Matches[n].fullText = x.fullText)

\* C19: extractCitations returns one citation for every match of the sheet,
\* detail and page patterns, less the page matches whose text is the fullText
\* of a citation of the sheet or detail pass, and no bracketed span yields
\* two citations.
C19_OnePerMatch ==
    Extracting =>
        /\ Len(call.ret) = Len(Matches) - Len(CapturedBefore)
        /\ \A n \in 1..Len(Matches) :
              CitationsOf(Matches[n].fullText) <= MatchesOf(Matches[n].fullText)

---------------------------------------------------------------------------
(* Claims on SpecProcess *)

NoRunInProgress == \A r \in Requests : req[r].pc # "parsing"

\* C20: after any sequence of processProject runs, overlapping or repeated
\* after a run failed part-way, the store holds at most one chunk for a
\* document and page number, and no chunk with empty content.
C20_OneChunkPerPage ==
    NoRunInProgress =>
        /\ \A c1, c2 \in chunks :
              (c1.document_id = c2.document_id
                 /\ c1.page_number = c2.page_number) => c1 = c2
        /\ \A c \in chunks : c.content.text # ""

---------------------------------------------------------------------------
(* Claims on SpecVision *)

NoVisionInProgress ==
    \A r \in Requests : req[r].pc \notin {"analyzing", "embedding"}

\* C21: after any sequence of analyzeProjectVision runs on a project, runs
\* that overlap in time included, the store holds at most one visual finding
\* for a document and page number.
C21_OneFindingPerPage ==
    NoVisionInProgress =>
        \A f1, f2 \in visual_findings :
            (f1.document_id = f2.document_id
               /\ f1.page_number = f2.page_number) => f1 = f2

---------------------------------------------------------------------------
(* Claims on SpecFindings *)

FindingEmbeddingOf(id) == (CHOOSE f \in visual_findings : f.id = id).embedding

FindingsOf(n) == Range(gen_log[n].ids)

\* C27 as stated: generateVisualFindingsEmbeddings handles a provider failure
\* as generateEmbeddings does: a batch failure that is neither a rate limit nor
\* a context-length error aborts the pass and is raised, so that a pass that
\* returns normally has embedded every finding it counted and attempted.
C27_RaisedLikeChunks ==
    /\ \A n \in 1..Len(gen_log) :
          (IsCall(gen_log[n], "batch") /\ OtherFailure(gen_log[n])) =>
              /\ n = Len(gen_log)
              /\ Ended("raised")
    /\ Ended("returned") =>
          \A n \in 1..Len(gen_log) : gen_log[n].ev = "call" =>
              \A id \in FindingsOf(n) : FindingEmbeddingOf(id) # NoEmbedding

\* C27, amended: generateVisualFindingsEmbeddings does not handle a provider
\* failure as generateEmbeddings does: a batch failure of any kind is logged
\* and the pass goes on with the next batch, never raising; a pass that
\* returns normally has embedded every finding it counted in
\* findingsProcessed, and the findings of a failed batch stay without
\* embedding.
C27_FailureSkipsBatch ==
    /\ ~Ended("raised")
    /\ \A n \in 1..Len(gen_log) :
          (gen_log[n].ev = "call" /\ gen_log[n].status # 200) =>
              /\ \A id \in FindingsOf(n) : FindingEmbeddingOf(id) = NoEmbedding
              /\ IF gen_log[n].i + findingsBatchSize < Len(gen_selected)
                 THEN \/ gen_pc = "batch"
                         /\ gen_i = gen_log[n].i + findingsBatchSize
                      \/ /\ n < Len(gen_log)
                         /\ IsCall(gen_log[n + 1], "batch")
                         /\ gen_log[n + 1].i = gen_log[n].i + findingsBatchSize
                 ELSE Ended("returned")
    /\ Ended("returned") =>
          LET embedded == UNION {FindingsOf(n) : n \in
                                   {m \in 1..Len(gen_log) :
                                       gen_log[m].ev = "call"
                                         /\ gen_log[m].status = 200}}
          IN  /\ gen_result.findingsProcessed = Cardinality(embedded)
              /\ \A id \in embedded : FindingEmbeddingOf(id) # NoEmbedding

\* A pass that returned normally after its first batch failed with an error
\* that is neither a rate limit nor a context-length error and its second
\* batch was embedded.
C27_Witness ==
    /\ Ended("returned")
    /\ Len(gen_log) = 2
    /\ IsCall(gen_log[1], "batch") /\ OtherFailure(gen_log[1])
    /\ IsCall(gen_log[2], "batch") /\ gen_log[2].status = 200
    /\ gen_result.findingsProcessed = Len(gen_log[2].ids)
    /\ \A id \in FindingsOf(1) : FindingEmbeddingOf(id) = NoEmbedding

---------------------------------------------------------------------------
(* Claims on SpecMerge *)

\* The items of the results of all queries, the original question's first.
Found(allResults, field) ==
    Concat([n \in 1..Len(allResults) |-> allResults[n][field]])

\* How many different ids the first p items found hold.
Rank(found, p) == Cardinality({found[k].id : k \in 1..p})

FirstOccurrence(found, p) == \A k \in 1..(p - 1) : found[k].id # found[p].id

\* merged holds no id twice, holds at most limit items, and the k-th different
\* id found, k up to limit, is at position k with the item of its first
\* occurrence.
MergedInOrder(merged, found, limit) ==
    /\ \A i, j \in 1..Len(merged) : merged[i].id = merged[j].id => i = j
    /\ Len(merged) = Min(limit, Rank(found, Len(found)))
    /\ \A p \in 1..Len(found) :
          (FirstOccurrence(found, p) /\ Rank(found, p) <= limit) =>
              merged[Rank(found, p)] = found[p]

\* C29: after the merge no two merged chunks share an id and no two merged
\* visual findings share an id; an item found by several queries keeps the
\* position of its first occurrence, the results of the original question
\* first; at most relevantContentLimit chunks and at most 5 visual findings
\* are kept.
C29_MergedOnce ==
    call.op = "generateResponse" =>
        /\ MergedInOrder(call.ret.relevantChunks, Found(call.query, "chunks"),
                         relevantContentLimit)
        /\ MergedInOrder(call.ret.relevantVisualFindings,
                         Found(call.query, "visualFindings"), 5)

\* Two queries found more than relevantContentLimit different chunks and more
\* than 5 different visual findings, some of them twice.
C29_Witness ==
    /\ call.op = "generateResponse"
    /\ Len(call.query) = 2
    /\ Rank(Found(call.query, "chunks"), Len(Found(call.query, "chunks")))
          > relevantContentLimit
    /\ Rank(Found(call.query, "visualFindings"),
            Len(Found(call.query, "visualFindings"))) > 5
    /\ \E i \in 1..Len(call.query[2].chunks) :
          \E k \in 1..Len(call.ret.relevantChunks) :
              /\ call.ret.relevantChunks[k].id = call.query[2].chunks[i].id
              /\ call.ret.relevantChunks[k].query = 1
    /\ Len(call.ret.relevantChunks) = relevantContentLimit
    /\ Len(call.ret.relevantVisualFindings) = 5

---------------------------------------------------------------------------
(* Claims on SpecRoute *)

\* C23: the model named in the body of POST /api/chats/:chatId/message is the
\* model of every completion call that generates the answer; gpt-4o when the
\* body names none.
C23_ModelOfTheRequest ==
    \A r \in Requests :
        \A n \in 1..Len(req[r].log) :
            req[r].log[n].purpose \in AnswerPurposes =>
                req[r].log[n].model = IF req[r].bodyModel = NULL THEN "gpt-4o"
                                      ELSE req[r].bodyModel

====
